----------------------------- MODULE VmRunProofs -----------------------------
(***************************************************************************)
(* The memory of a run, for every size of size_t and of a MiB, every        *)
(* request and every program. The sizes that the loop goes through are      *)
(* powers of two, which is what makes an overflow give no memory rather     *)
(* than too little.                                                         *)
(***************************************************************************)
EXTENDS VmRun, TLAPS

\* What remains of a division is smaller than the divisor, and nothing of a smaller
\* number is divided off.
LEMMA Remainder ==
  ASSUME NEW n \in Nat, NEW m \in Nat, m > 0
  PROVE  /\ n % m \in 0 .. m - 1
         /\ n < m => n % m = n
         /\ n % m = 0 /\ n > 0 => m <= n
  OBVIOUS

\* A multiple of a number is one when doubled.
LEMMA DoubleMultiple ==
  ASSUME NEW n \in Nat, NEW m \in Nat, m > 0, n % m = 0
  PROVE  (2 * n) % m = 0
<1>1. n = m * (n \div m)
  OBVIOUS
<1>2. n \div m \in Nat
  OBVIOUS
<1>3. ASSUME NEW q \in Nat, n = m * q
      PROVE  (2 * n) % m = 0
  <2>1. 2 * n = m * (2 * q)
    BY <1>3
  <2>2. \A k \in Nat : (m * k) % m = 0
    OBVIOUS
  <2> QED
    BY <2>1, <2>2
<1> QED
  BY <1>1, <1>2, <1>3

LEMMA Constants ==
  /\ SizeMod \in Nat /\ MiB \in Nat /\ MiB > 0 /\ SizeMod > 4 * MiB /\ SizeMod > 4
  /\ Requests \subseteq Nat /\ ProgSizes \subseteq Nat
  BY SizeAssumption

\* Sizes in bytes are in the order of the sizes.
LEMMA InBytesOrder ==
  ASSUME NEW n \in Nat, NEW m \in Nat
  PROVE  /\ n * MiB \in Nat /\ n <= n * MiB
         /\ n < m => n * MiB < m * MiB
         /\ n <= m => n * MiB <= m * MiB
         /\ (2 * n) * MiB = 2 * (n * MiB) /\ 2 * n * MiB = 2 * (n * MiB)
<1>1. PICK k \in Nat : MiB = k + 1
  <2>1. MiB - 1 \in Nat /\ MiB = (MiB - 1) + 1
    BY Constants
  <2> QED
    BY <2>1
<1>2. n * MiB = n * k + n /\ n * k \in Nat
  BY <1>1
<1>3. \A d \in Nat : (n + d) * MiB = n * MiB + d * MiB /\ d * MiB \in Nat /\ d * MiB >= d
  <2>1. TAKE d \in Nat
  <2>2. d * MiB = d * k + d /\ d * k \in Nat
    BY <1>1
  <2>3. (n + d) * MiB = n * MiB + d * MiB
    BY Constants
  <2> QED
    BY <2>2, <2>3
<1>4. n <= m => m - n \in Nat /\ m = n + (m - n)
  OBVIOUS
<1>5. n * MiB \in Nat /\ n <= n * MiB
  BY <1>2
<1>6. n <= m => n * MiB <= m * MiB /\ (n < m => n * MiB < m * MiB)
  <2>1. SUFFICES ASSUME n <= m PROVE n * MiB <= m * MiB /\ (n < m => n * MiB < m * MiB)
    OBVIOUS
  <2>2. m * MiB = n * MiB + (m - n) * MiB /\ (m - n) * MiB \in Nat /\ (m - n) * MiB >= m - n
    BY <1>3, <1>4, <2>1
  <2> QED
    BY <1>5, <2>1, <2>2
<1>7. (2 * n) * MiB = 2 * (n * MiB) /\ 2 * n * MiB = 2 * (n * MiB)
  BY Constants
<1> QED
  BY <1>5, <1>6, <1>7
-----------------------------------------------------------------------------
\* The sizes of the loop divide SizeMod until one is its half, and so do their bytes
\* until they overflow; after that both are multiples of it.
Power(n) == n % SizeMod = 0 \/ SizeMod % n = 0

SizeInv ==
  /\ size = 0 \/ (size >= 4 /\ SizeMod % size = 0)
  /\ size = 0 => mem_size_mb > 0
  /\ Power(size * MiB)
  /\ 2 * Wanted * MiB <= SizeMod => size >= 4 /\ size < 2 * Wanted

MemoryInv ==
  /\ phase = "create" => mem_size_mb <= size
  /\ phase \notin {"adjust", "create", "aborted"} => MemoryAsAsked /\ AllOrNothing
  /\ phase \in {"adjust", "create"} => mem_size = 0 /\ text_mem_size = 0
  /\ phase \notin {"adjust", "create", "aborted"} =>
       text_mem_size = IF exec_type = "JIT" THEN mem_size \div 4 ELSE 0
  /\ phase \notin {"adjust", "create", "aborted"} => exec_type \in {"INTERPRETER", "JIT"}

HeldInv ==
  /\ held \subseteq IF exec_type = "JIT" THEN {"text", "data"} ELSE {"buffer"}
  /\ phase = "done" => held = {}
  /\ phase \in {"adjust", "create", "init_execution"} => held = {}
  /\ phase = "map_data" => exec_type = "JIT"
  /\ exec_type = "JIT" /\ phase \in {"map_data", "load_program"} => text_mem_size > 0

IInv == TypeOK /\ SizeInv /\ MemoryInv /\ HeldInv /\ FitsMemory

\* A size below SizeMod that divides it does so doubled, and what is doubled is then
\* SizeMod at most.
LEMMA Doubled ==
  ASSUME NEW n \in Nat, n > 0, n < SizeMod, SizeMod % n = 0
  PROVE  SizeMod % (2 * n) = 0 /\ 2 * n <= SizeMod
<1>1. n \in 1 .. SizeMod - 1
  BY Constants
<1>2. SizeMod % (2 * n) = 0
  BY <1>1, PowerAssumption
<1>3. SizeMod \in Nat /\ SizeMod > 0 /\ 2 * n \in Nat /\ 2 * n > 0
  BY Constants
<1> QED
  BY <1>2, <1>3, Remainder

LEMMA PowerDoubled ==
  ASSUME NEW n \in Nat, Power(n)
  PROVE  Power(2 * n)
<1>1. CASE n % SizeMod = 0
  BY <1>1, Constants, DoubleMultiple DEF Power
<1>2. CASE n % SizeMod # 0
  <2>1. SizeMod % n = 0
    BY <1>2 DEF Power
  <2>2. 0 % SizeMod = 0 /\ SizeMod % SizeMod = 0
    BY Constants
  <2>3. n > 0 /\ n # SizeMod
    BY <1>2, <2>2
  <2>4. n <= SizeMod
    BY <2>1, <2>3, Constants, Remainder
  <2> QED
    BY <2>1, <2>3, <2>4, Constants, Doubled DEF Power
<1> QED
  BY <1>1, <1>2

\* What a size that divides SizeMod is in bytes is exact or, overflowing, nothing.
LEMMA Exact ==
  ASSUME NEW n \in Nat, Power(n)
  PROVE  n % SizeMod = n \/ n % SizeMod = 0
<1>1. CASE n % SizeMod = 0
  BY <1>1
<1>2. CASE n % SizeMod # 0
  <2>1. SizeMod % n = 0 /\ 0 % SizeMod = 0 /\ SizeMod % SizeMod = 0
    BY <1>2, Constants DEF Power
  <2>2. n > 0 /\ n # SizeMod
    BY <1>2, <2>1
  <2>3. n < SizeMod
    BY <2>1, <2>2, Constants, Remainder
  <2> QED
    BY <2>3, Constants, Remainder
<1> QED
  BY <1>1, <1>2
-----------------------------------------------------------------------------
LEMMA InitInv == Init => IInv
<1>1. SUFFICES ASSUME Init PROVE IInv
  OBVIOUS
<1> USE <1>1 DEF Init
<1>2. TypeOK
  BY Constants, SizeAssumption DEF TypeOK, Phase, ExecType
<1>3. SizeInv
  <2>1. Power(size * MiB)
    BY Constants, PowerAssumption DEF Power
  <2>2. mem_size_mb \in Nat /\ Wanted \in Nat /\ Wanted >= 4
    BY Constants DEF Wanted
  <2> QED
    BY <2>1, <2>2, PowerAssumption DEF SizeInv
<1>4. MemoryInv /\ HeldInv /\ FitsMemory
  BY DEF MemoryInv, HeldInv, FitsMemory
<1> QED
  BY <1>2, <1>3, <1>4 DEF IInv

\* What the types say of the numbers.
LEMMA Numbers ==
  ASSUME TypeOK
  PROVE  /\ mem_size_mb \in Nat /\ prog_size \in Nat /\ size \in Nat /\ size < SizeMod
         /\ mem_size \in Nat /\ text_mem_size \in Nat
         /\ Wanted \in Nat /\ Wanted >= 4 /\ Wanted >= mem_size_mb
         /\ mem_size_mb > 4 => Wanted = mem_size_mb
  BY Constants DEF TypeOK, Wanted

\* A round of the loop: a size that is doubled past SizeMod is not one that a request
\* with a size in bytes needs.
LEMMA AdjustInv == IInv /\ adjust_mem_size_mb => IInv'
<1>1. SUFFICES ASSUME IInv, adjust_mem_size_mb PROVE IInv'
  OBVIOUS
<1> USE <1>1
<1>2. TypeOK /\ SizeInv /\ MemoryInv /\ HeldInv
  BY DEF IInv
<1>3. UNCHANGED <<args, mem_size, text_mem_size, held>> /\ Wanted' = Wanted /\ phase = "adjust"
  BY DEF adjust_mem_size_mb, args, Wanted
<1>4. CASE Smaller
  <2>1. size' = (2 * size) % SizeMod /\ phase' = phase /\ mem_size_mb > size
    BY <1>4 DEF adjust_mem_size_mb, Smaller
  <2>2. size' \in 0 .. SizeMod - 1
    BY <1>2, <2>1, Numbers, Constants, Remainder
  <2>3. TypeOK'
    BY <1>2, <1>3, <2>1, <2>2 DEF TypeOK, args
  <2>4. SizeInv'
    <3>1. 0 * MiB = 0 /\ 0 % SizeMod = 0
      BY Constants
    <3>2. CASE size = 0
      <4>1. size' = 0
        BY <2>1, <3>1, <3>2
      <4>2. ~(2 * Wanted * MiB <= SizeMod)
        BY <1>2, <3>2 DEF SizeInv
      <4> QED
        BY <1>2, <1>3, <2>1, <3>1, <4>1, <4>2, Numbers DEF SizeInv, Power, args
    <3>3. CASE size # 0
      <4>1. size >= 4 /\ SizeMod % size = 0 /\ size \in Nat /\ size < SizeMod
        BY <1>2, <3>3, Numbers DEF SizeInv
      <4>2. SizeMod % (2 * size) = 0 /\ 2 * size <= SizeMod
        BY <4>1, Doubled
      <4>3. Wanted = mem_size_mb /\ Wanted \in Nat /\ size < Wanted
        BY <1>2, <2>1, <4>1, Numbers
      <4>4. Power((2 * size) * MiB)
        <5>1. size * MiB \in Nat /\ (2 * size) * MiB = 2 * (size * MiB)
          BY <4>1, InBytesOrder
        <5> QED
          BY <1>2, <5>1, PowerDoubled DEF SizeInv
      <4>5. CASE 2 * size < SizeMod
        <5>1. size' = 2 * size
          BY <2>1, <4>1, <4>5, Constants, Remainder
        <5> QED
          BY <1>3, <4>1, <4>2, <4>3, <4>4, <5>1 DEF SizeInv
      <4>6. CASE 2 * size = SizeMod
        <5>1. size' = 0
          BY <2>1, <4>6, Constants
        <5>2. mem_size_mb' > 0
          BY <1>3, <2>1, <4>1, <4>3 DEF args
        <5>3. ~(2 * Wanted * MiB <= SizeMod)
          <6>1. 2 * Wanted \in Nat /\ 2 * Wanted <= (2 * Wanted) * MiB
            BY <4>3, InBytesOrder
          <6>2. 2 * size < 2 * Wanted
            BY <4>1, <4>3
          <6>3. (2 * Wanted) * MiB = 2 * Wanted * MiB /\ (2 * Wanted) * MiB \in Nat
            BY <6>1, InBytesOrder
          <6> QED
            BY <4>1, <4>6, <6>1, <6>2, <6>3, Constants
        <5> QED
          BY <1>3, <3>1, <5>1, <5>2, <5>3 DEF SizeInv, Power
      <4> QED
        BY <4>1, <4>2, <4>5, <4>6, Constants
    <3> QED
      BY <3>2, <3>3
  <2>5. MemoryInv' /\ HeldInv' /\ FitsMemory'
    BY <1>2, <1>3, <2>1 DEF MemoryInv, HeldInv, FitsMemory, Room, args
  <2> QED
    BY <2>3, <2>4, <2>5 DEF IInv
<1>5. CASE ~Smaller
  <2>1. size' = size /\ phase' = "create" /\ ~(mem_size_mb > size)
    BY <1>5 DEF adjust_mem_size_mb, Smaller
  <2>2. mem_size_mb <= size
    BY <1>2, <2>1, Numbers
  <2>3. TypeOK'
    BY <1>2, <1>3, <2>1 DEF TypeOK, args, Phase
  <2>4. SizeInv'
    BY <1>2, <1>3, <2>1 DEF SizeInv, args, Power
  <2>5. MemoryInv' /\ HeldInv' /\ FitsMemory'
    BY <1>2, <1>3, <2>1, <2>2 DEF MemoryInv, HeldInv, FitsMemory, Room, args
  <2> QED
    BY <2>3, <2>4, <2>5 DEF IInv
<1> QED
  BY <1>4, <1>5

\* The constructors: the bytes of the size are exact or none.
LEMMA CreateInv == IInv /\ create_execution_engine => IInv'
<1>1. SUFFICES ASSUME IInv, create_execution_engine PROVE IInv'
  OBVIOUS
<1> USE <1>1
<1>2. TypeOK /\ SizeInv /\ MemoryInv /\ HeldInv /\ phase = "create"
  BY DEF IInv, create_execution_engine
<1>3. CASE Aborts
  BY <1>2, <1>3 DEF IInv, TypeOK, SizeInv, Power, MemoryInv, HeldInv, FitsMemory, Aborts, args,
                    Phase, Wanted, Room
<1>4. CASE ~Aborts
  <2>1. /\ exec_type \in {"INTERPRETER", "JIT"} /\ phase' = "init_execution"
        /\ mem_size' = (size * MiB) % SizeMod
        /\ text_mem_size' = IF exec_type = "JIT" THEN mem_size' \div 4 ELSE 0
        /\ UNCHANGED <<args, size, held>> /\ Wanted' = Wanted
    BY <1>2, <1>4 DEF create_execution_engine, InBytes, TextPart, TypeOK, ExecType, args, Wanted
  <2>2. size * MiB \in Nat /\ Power(size * MiB)
    BY <1>2, Numbers, InBytesOrder DEF SizeInv
  <2>3. mem_size' \in 0 .. SizeMod - 1
    BY <2>1, <2>2, Constants, Remainder
  <2>4. \A n \in Nat : n \div 4 \in 0 .. n
    OBVIOUS
  <2>5. text_mem_size' \in 0 .. mem_size'
    BY <2>1, <2>3, <2>4, Constants
  <2>6. TypeOK'
    BY <1>2, <2>1, <2>3, <2>5 DEF TypeOK, args, Phase
  <2>7. SizeInv'
    BY <1>2, <2>1 DEF SizeInv, args, Power
  <2>8. Wanted <= size
    BY <1>2, Numbers DEF SizeInv, MemoryInv, Wanted
  <2>9. Wanted * MiB \in Nat /\ Wanted * MiB <= size * MiB
    BY <1>2, <2>8, Numbers, InBytesOrder
  <2>10. AllOrNothing'
    BY <2>1, <2>2, <2>9, Exact DEF AllOrNothing
  <2>11. MemoryAsAsked'
    <3>1. SUFFICES ASSUME 2 * Wanted * MiB <= SizeMod
                   PROVE  Wanted * MiB <= mem_size' /\ mem_size' < 2 * Wanted * MiB
      BY <2>1 DEF MemoryAsAsked, args
    <3>2. size < 2 * Wanted /\ 2 * Wanted \in Nat /\ size \in Nat
      BY <1>2, <3>1, Numbers DEF SizeInv
    <3>3. size * MiB < (2 * Wanted) * MiB /\ (2 * Wanted) * MiB = 2 * Wanted * MiB
      BY <1>2, <3>2, Numbers, InBytesOrder
    <3>4. (2 * Wanted) * MiB \in Nat
      BY <3>2, InBytesOrder
    <3>5. mem_size' = size * MiB
      BY <2>1, <2>2, <3>1, <3>3, <3>4, Constants, Remainder
    <3> QED
      BY <2>9, <3>3, <3>5
  <2>12. MemoryInv' /\ HeldInv' /\ FitsMemory'
    BY <1>2, <2>1, <2>10, <2>11 DEF MemoryInv, HeldInv, FitsMemory, Room, args
  <2> QED
    BY <2>6, <2>7, <2>12 DEF IInv
<1> QED
  BY <1>3, <1>4

Later == \/ init_interpreter \/ map_text \/ map_data \/ load_program \/ exec_program
         \/ fini_interpreter \/ fini_memory

\* The phases after the constructors leave the sizes alone.
LEMMA LaterSizes ==
  ASSUME IInv, Later
  PROVE  /\ UNCHANGED <<args, size, mem_size, text_mem_size>> /\ Wanted' = Wanted
         /\ phase \notin {"adjust", "create", "aborted"} /\ phase' \notin {"adjust", "create"}
         /\ phase' \in Phase /\ SizeInv' /\ MemoryInv'
<1>1. /\ UNCHANGED <<args, size, mem_size, text_mem_size>>
      /\ phase \notin {"adjust", "create", "aborted"} /\ phase' \notin {"adjust", "create"}
      /\ phase' \in Phase
  BY DEF Later, init_interpreter, map_text, map_data, load_program, exec_program,
         fini_interpreter, fini_memory, Enter, Aborts, Phase
<1>2. Wanted' = Wanted
  BY <1>1 DEF Wanted, args
<1>3. SizeInv'
  BY <1>1, <1>2 DEF IInv, SizeInv, Power, args
<1>4. MemoryInv'
  <2>1. Allocates \/ phase = "undefined"
    BY <1>1 DEF IInv, TypeOK, Phase, Allocates
  <2>2. MemoryAsAsked' /\ AllOrNothing'
    BY <1>1, <1>2, <2>1 DEF IInv, MemoryInv, MemoryAsAsked, AllOrNothing, Allocates, args
  <2> QED
    BY <1>1, <2>2 DEF IInv, MemoryInv, args
<1> QED
  BY <1>1, <1>2, <1>3, <1>4

\* Memory that is held is released, and it is used only when it is held.
LEMMA LaterInv == IInv /\ Later => IInv'
<1>1. SUFFICES ASSUME IInv, Later PROVE IInv'
  OBVIOUS
<1> USE <1>1
<1>2. TypeOK /\ HeldInv /\ MemoryInv /\ FitsMemory
  BY DEF IInv
<1>3. /\ UNCHANGED <<args, size, mem_size, text_mem_size>> /\ Wanted' = Wanted
      /\ phase \notin {"adjust", "create", "aborted"} /\ phase' \notin {"adjust", "create"}
      /\ phase' \in Phase /\ SizeInv' /\ MemoryInv'
  BY LaterSizes
<1>4. HeldInv'
  <2>1. CASE init_interpreter
    BY <1>2, <1>3, <2>1 DEF init_interpreter, HeldInv, Enter, Aborts, args
  <2>2. CASE map_text
    BY <1>2, <1>3, <2>2 DEF map_text, HeldInv, Enter, Aborts, args
  <2>3. CASE map_data
    BY <1>2, <1>3, <2>3 DEF map_data, HeldInv, Enter, args
  <2>4. CASE load_program
    BY <1>2, <1>3, <2>4 DEF load_program, HeldInv, Enter, args
  <2>5. CASE exec_program
    BY <1>2, <1>3, <2>5 DEF exec_program, HeldInv, Enter, Aborts, args
  <2>6. CASE fini_interpreter
    BY <1>2, <1>3, <2>6 DEF fini_interpreter, HeldInv, Enter, args
  <2>7. CASE fini_memory
    BY <1>2, <1>3, <2>7 DEF fini_memory, HeldInv, Enter, Aborts, args
  <2> QED
    BY <2>1, <2>2, <2>3, <2>4, <2>5, <2>6, <2>7 DEF Later
<1>5. TypeOK'
  <2>1. held' \subseteq {"buffer", "text", "data"}
    BY <1>3, <1>4 DEF HeldInv
  <2> QED
    BY <1>2, <1>3, <2>1 DEF TypeOK, args
<1>6. FitsMemory'
  <2>1. CASE load_program
    <3>1. Wanted * MiB \in Nat /\ (mem_size = 0 \/ Wanted * MiB <= mem_size)
      BY <1>2, <2>1, Numbers, InBytesOrder DEF load_program, MemoryInv, AllOrNothing, Allocates
    <3>2. UNCHANGED <<exec_type, prog_size, Room>>
      BY <1>3 DEF Room, args
    <3>3. CASE exec_type = "INTERPRETER"
      <4>1. Room => prog_size <= Wanted * MiB
        BY <3>3 DEF Room
      <4>2. phase' = "undefined" => ~(prog_size <= mem_size)
        BY <2>1, <3>3 DEF load_program, Enter
      <4> QED
        BY <1>2, <1>3, <3>1, <3>2, <3>3, <4>1, <4>2, Numbers DEF FitsMemory
    <3>4. CASE exec_type = "JIT"
      <4>1. text_mem_size > 0 /\ text_mem_size = mem_size \div 4
        BY <1>2, <1>3, <2>1, <3>4 DEF HeldInv, MemoryInv, load_program
      <4>2. mem_size # 0
        BY <4>1
      <4>3. (Wanted * MiB) \div 4 <= text_mem_size
        <5>1. \A n, m \in Nat : n <= m => n \div 4 <= m \div 4
          OBVIOUS
        <5> QED
          BY <1>2, <3>1, <4>1, <4>2, <5>1, Numbers
      <4>4. Room => Fixed + Expansion * prog_size <= (Wanted * MiB) \div 4
        BY <3>4 DEF Room
      <4>5. Fixed + Expansion * prog_size \in Nat /\ (Wanted * MiB) \div 4 \in Nat
        BY <1>2, <3>1, Numbers, SizeAssumption
      <4>6. ASSUME Room, NEW n \in 0 .. Fixed + Expansion * prog_size
            PROVE  n <= text_mem_size
        BY <1>2, <4>3, <4>4, <4>5, <4>6, Numbers
      <4> QED
        BY <1>3, <2>1, <3>2, <3>4, <4>6 DEF load_program, FitsMemory, Enter
    <3> QED
      BY <1>2, <1>3, <3>3, <3>4 DEF MemoryInv
  <2>2. CASE ~load_program
    BY <1>2, <1>3, <2>2 DEF Later, FitsMemory, Room, init_interpreter, map_text, map_data,
       exec_program, fini_interpreter, fini_memory, Enter, Aborts, args
  <2> QED
    BY <2>1, <2>2
<1> QED
  BY <1>3, <1>4, <1>5, <1>6 DEF IInv

LEMMA StutterInv == IInv /\ UNCHANGED vars => IInv'
  BY DEF IInv, vars, args, TypeOK, SizeInv, Power, MemoryInv, HeldInv, FitsMemory, MemoryAsAsked,
         AllOrNothing, Allocates, Wanted, Room

LEMMA Inductive == Spec => []IInv
<1>1. IInv /\ [Next]_vars => IInv'
  BY AdjustInv, CreateInv, LaterInv, StutterInv DEF Next, Later
<1> QED
  BY <1>1, InitInv, PTL DEF Spec
-----------------------------------------------------------------------------
\* Sizes stay within size_t, and the engine holds no memory of another.
THEOREM RunTypeCorrect == Spec => []TypeOK
<1>1. IInv => TypeOK
  BY DEF IInv
<1> QED
  BY <1>1, Inductive, PTL

\* The engine has the memory that was asked for, when twice as much has a size.
THEOREM AsAsked == Spec => []MemoryAsAsked
<1>1. IInv => MemoryAsAsked
  BY DEF IInv, MemoryInv, MemoryAsAsked, Allocates
<1> QED
  BY <1>1, Inductive, PTL

\* A size that overflows gives no memory and never too little.
THEOREM NeverLess == Spec => []AllOrNothing
<1>1. IInv => AllOrNothing
  BY DEF IInv, MemoryInv, AllOrNothing, Allocates
<1> QED
  BY <1>1, Inductive, PTL

\* Whatever the request, a program with room in the memory that it asks for, and its
\* native code with room in a quarter of that, stay in the memory that the engine got:
\* rounding the request up, doubling and shifting it never leave less. Of a program
\* without room nothing is said, since no engine compares the two sizes.
THEOREM KeepsToMemory == Spec => []FitsMemory
<1>1. IInv => FitsMemory
  BY DEF IInv
<1> QED
  BY <1>1, Inductive, PTL

\* No memory is held when vm_run returns.
THEOREM AllReleased == Spec => []Released
<1>1. IInv => Released
  BY DEF IInv, HeldInv, Released
<1> QED
  BY <1>1, Inductive, PTL
=============================================================================
