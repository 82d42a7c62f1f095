------------------------------- MODULE VmRun -------------------------------
(***************************************************************************)
(* One call of vm_run (src/vm/vm.cc): the size of the memory, the engine    *)
(* and the phases of ExecutionEngine::execute (src/vm/exe.h), with the       *)
(* memory that the interpreter (src/vm/int.cc) and the JIT compilers         *)
(* (src/vm/jit.cc) allocate, fill and release. What the program does while   *)
(* it runs is the subject of the other modules.                              *)
(***************************************************************************)
EXTENDS Integers

CONSTANTS
  SizeMod,      \* 2^64: size_t is modulo this
  MiB,          \* 2^20
  Requests,     \* the memory that may be asked for, in MiB
  ProgSizes,    \* the sizes of programs
  Fixed,        \* the native code that the JIT adds to a program, at most
  Expansion     \* and the native code per byte of the program, at most

ASSUME SizeAssumption ==
  /\ SizeMod \in Nat /\ MiB \in Nat \ {0} /\ SizeMod > 4 * MiB
  /\ Requests \subseteq 0 .. SizeMod - 1 /\ ProgSizes \subseteq 0 .. SizeMod - 1
  /\ Fixed \in Nat /\ Expansion \in Nat

\* SizeMod is a power of two, and MiB one that divides it.
ASSUME PowerAssumption ==
  /\ \A d \in 1 .. SizeMod - 1 : SizeMod % d = 0 => SizeMod % (2 * d) = 0
  /\ SizeMod % 4 = 0 /\ SizeMod % (4 * MiB) = 0

VARIABLES
  mem_size_mb,      \* what was asked for
  prog_size,
  exec_type,
  phase,            \* where vm_run is
  size,             \* the memory in MiB, while it is adjusted and then
  mem_size,         \* in bytes
  text_mem_size,    \* the part of it that the JIT uses for native code
  held              \* the memory the engine holds: buffer for the
                    \* interpreter, text and data for the JIT

vars == <<mem_size_mb, prog_size, exec_type, phase, size, mem_size, text_mem_size, held>>
args == <<mem_size_mb, prog_size, exec_type>>

ExecType == {"INTERPRETER", "JIT", "unsupported"}

\* undefined: memory was written that is not the engine's; aborted: the process
\* stopped with a message or an exception.
Phase == {"adjust", "create", "init_execution", "map_data", "load_program", "exec_program",
          "fini_execution", "done", "aborted", "undefined"}

TypeOK ==
  /\ mem_size_mb \in Requests /\ prog_size \in ProgSizes /\ exec_type \in ExecType
  /\ phase \in Phase
  /\ size \in 0 .. SizeMod - 1 /\ mem_size \in 0 .. SizeMod - 1
  /\ text_mem_size \in 0 .. mem_size
  /\ held \subseteq {"buffer", "text", "data"}

Init ==
  /\ mem_size_mb \in Requests /\ prog_size \in ProgSizes /\ exec_type \in ExecType
  /\ phase = "adjust" /\ size = 4
  /\ mem_size = 0 /\ text_mem_size = 0
  /\ held = {}

data_mem_size == mem_size - text_mem_size

Aborts == phase' = "aborted" /\ UNCHANGED <<args, size, mem_size, text_mem_size, held>>
Enter(p) == phase' = p /\ UNCHANGED <<args, size, mem_size, text_mem_size>>
-----------------------------------------------------------------------------
\* (Mutants of Smaller: the loop stops a doubling early, or only at the size asked
\* for.)
Smaller_Early == mem_size_mb > 2 * size
Smaller_NotEqual == mem_size_mb # size

Smaller == mem_size_mb > size

\* A round of the loop of adjust_mem_size_mb, or its end.
adjust_mem_size_mb ==
  /\ phase = "adjust"
  /\ IF Smaller THEN size' = (2 * size) % SizeMod /\ UNCHANGED phase
                ELSE phase' = "create" /\ UNCHANGED size
  /\ UNCHANGED <<args, mem_size, text_mem_size, held>>

\* (Mutants of TextPart: it is twice as small, or a multiple of the memory.)
TextPart_Eighth(n) == n \div 8
TextPart_Times(n)  == n * 4

\* What JIT takes of n bytes for native code.
TextPart(n) == n \div 4

\* (Mutant of InBytes: the size is taken as large as it can be.)
InBytes_Saturated == IF size * MiB < SizeMod THEN size * MiB ELSE SizeMod - MiB

\* mem_size_mb << 20
InBytes == (size * MiB) % SizeMod

\* The constructors: ExecutionEngine's, and JIT's for its parts of the memory.
create_execution_engine ==
  /\ phase = "create"
  /\ \/ exec_type = "unsupported" /\ Aborts
     \/ /\ exec_type # "unsupported"
        /\ phase' = "init_execution"
        /\ mem_size' = InBytes
        /\ text_mem_size' = IF exec_type = "JIT" THEN TextPart(mem_size') ELSE 0
        /\ UNCHANGED <<args, size, held>>

\* new either gives the interpreter its memory or throws.
init_interpreter ==
  /\ phase = "init_execution" /\ exec_type = "INTERPRETER"
  /\ \/ Enter("load_program") /\ held' = {"buffer"}
     \/ Aborts

\* init_memory's first mmap, which fails for a size of 0 and may otherwise.
map_text ==
  /\ phase = "init_execution" /\ exec_type = "JIT"
  /\ \/ text_mem_size > 0 /\ Enter("map_data") /\ held' = {"text"}
     \/ Aborts

\* Its second mmap: what is tested after it is the first one's result.
map_data ==
  /\ phase = "map_data"
  /\ Enter("load_program")
  /\ \/ data_mem_size > 0 /\ held' = held \cup {"data"}
     \/ UNCHANGED held

\* The program is copied to mem, or n bytes of native code go to text_mem.
load_program ==
  /\ phase = "load_program"
  /\ \/ /\ exec_type = "INTERPRETER"
        /\ Enter(IF prog_size <= mem_size THEN "exec_program" ELSE "undefined")
     \/ /\ exec_type = "JIT"
        /\ \E n \in 0 .. Fixed + Expansion * prog_size :
              Enter(IF n <= text_mem_size THEN "exec_program" ELSE "undefined")
  /\ UNCHANGED held

\* Behind the jump that each program starts with: reg[PC] of the interpreter.
FirstAddr == 9

\* A program with no instruction is not run by the interpreter; another one returns
\* or aborts. Without data_mem its stack is no memory.
exec_program ==
  /\ phase = "exec_program"
  /\ \/ /\ Enter(IF exec_type = "JIT" /\ "data" \notin held THEN "undefined"
                                                             ELSE "fini_execution")
        /\ UNCHANGED held
     \/ ~(exec_type = "INTERPRETER" /\ prog_size <= FirstAddr) /\ Aborts

fini_interpreter ==
  /\ phase = "fini_execution" /\ exec_type = "INTERPRETER"
  /\ Enter("done") /\ held' = held \ {"buffer"}

\* (Mutant of fini_memory: the data stays mapped.)
fini_memory_TextOnly ==
  /\ phase = "fini_execution" /\ exec_type = "JIT"
  /\ Enter("done") /\ held' = held \ {"text"}

\* fini_memory: munmap of the text and of the data, or an ABORT when one fails.
fini_memory ==
  /\ phase = "fini_execution" /\ exec_type = "JIT"
  /\ \/ Enter("done") /\ held' = held \ {"text", "data"}
     \/ Aborts

Next == \/ adjust_mem_size_mb \/ create_execution_engine \/ init_interpreter \/ map_text
        \/ map_data \/ load_program \/ exec_program \/ fini_interpreter \/ fini_memory

Spec == Init /\ [][Next]_vars
FairSpec == Spec /\ WF_vars(Next)
-----------------------------------------------------------------------------
Allocates == phase \in {"init_execution", "map_data", "load_program", "exec_program",
                        "fini_execution", "done", "undefined"}
Wanted    == IF mem_size_mb > 4 THEN mem_size_mb ELSE 4

\* The engine has the memory that was asked for, at least 4 MiB and less than twice
\* as much, when twice as much has a size in bytes (vm.cc:35-41, exe.cc:5).
MemoryAsAsked ==
  Allocates /\ 2 * Wanted * MiB <= SizeMod =>
    Wanted * MiB <= mem_size /\ mem_size < 2 * Wanted * MiB

\* A larger request, which overflows where the size is doubled or shifted into
\* bytes, gives no memory at all and never some that is less than asked for.
AllOrNothing == Allocates => mem_size = 0 \/ Wanted * MiB <= mem_size

\* The program has room in the memory that was asked for: the interpreter's copy of it
\* in all of that, the most native code it may need in a quarter.
Room == IF exec_type = "JIT" THEN Fixed + Expansion * prog_size <= (Wanted * MiB) \div 4
                             ELSE prog_size <= Wanted * MiB

\* The code has no test of that: a program without Room is written past the end of the
\* engine's memory (int.cc:40, jit.cc:68), as it is in the run. One that has Room is
\* not, whatever the doubling made of the request; then only the JIT whose data_mem
\* could not be mapped uses memory that is not its own, and the interpreter that got
\* none because the size overflowed.
FitsMemory ==
  phase = "undefined" /\ Room => \/ exec_type = "JIT" /\ "data" \notin held
                                 \/ exec_type = "INTERPRETER" /\ mem_size = 0

\* All the memory the engine got is released when vm_run returns.
Released == phase = "done" => held = {}

\* vm_run returns, or the process stops, for a program that does.
Ends == <>(phase \in {"done", "aborted", "undefined"})

\* What the ABORT at src/vm/jit.cc:77 is for: no program is started without its
\* data memory.
DataMapped == phase = "exec_program" /\ exec_type = "JIT" => "data" \in held

\* src/tools/vm.py:21-23 takes any integer as the size of the memory to use.
AdjustEnds == <>(phase # "adjust")
=============================================================================
