# Verification of the pcomp virtual machine

pcomp is a 64-bit RISC virtual machine with three execution engines: an
interpreter and two just-in-time compilers, for x86_64 and AArch64, with an
assembler and a disassembler. Everything runs in one thread. What is hard about
it is not concurrency but agreement: three engines have to give a program the
same machine, two of them with native code that is laid out, patched and left
to the host's processor, on a stack that program and host share.

This directory holds TLA+ modules that model the engines, TLC configurations
that check them on small machines, and TLAPS proofs for machines and programs
of any size. Paths such as `src/vm/int.cc` are those of the repository.

## Inventory

| Component | State | Operations | What makes it correct |
|---|---|---|---|
| Instruction set (`vm/exe.h`) | none | decoding, lengths, flags | the engines agree on it |
| Interpreter (`vm/int.cc`) | `mem`, `reg[16]` | 21 handlers, two paths into the system | does to a program what the VM promises; calls leave the stack as they should |
| Translator (`vm/jit.cc`, and `jit*` in `vm/x64.cc`, `vm/a64.cc`) | `jpos`, `va2aa`, `deferred_jpos`, `text_mem` | prologue, one block per instruction, second pass, exit guard | blocks end to end, every transfer linked, no undefined behaviour for a well-formed program, bounded code |
| x86_64 back end (`vm/x64.cc`) | the native code; at run time the processor and `host_sp`, `vm_sp`, `reg_dump_area` | the emit functions, the stub, `sys_enter` | the code amounts to the VM; the host gets its registers back |
| AArch64 back end (`vm/a64.cc`) | the same | its emit functions | the same |
| Life cycle (`vm/vm.cc`, `execute` of `vm/exe.h`, `init`/`load`/`fini` of the engines) | sizes, buffers | adjust, create, init, load, run, fini | the memory asked for, never exceeded, always released; it ends |
| Assembler (`tools/asm.py`) | labels, references, program | one pass and `link`, the bytes, the labels file | references get their label's address; what has no meaning is refused |
| Disassembler (`tools/disasm.py`) | bytes left, program, labels | decode, read or make up labels, print | reads what the assembler writes, labels name the addresses of the program, round trip |
| Wrapper, makefiles, test scripts | - | - | input and output only |

How they interact: the wrapper calls `vm_run`, which makes an engine and calls
its four phases in order. A JIT writes native code and calls it as a function;
the native code calls back `JIT::sys_enter` through the stub at the code of
address 0, with the VM's stack pointer as its argument. A program enters the
system with `CALL $sys_enter`, a jump that the assembler puts at address 0.

The hard behaviours, each listed with its line under `hazards` in
`PROJECT.json`: a vector appended to while it is iterated over; code written
over slots reserved earlier; a code buffer whose end nothing tests; the order
of stack access and stack pointer; return addresses moved within a frame while
the host runs below it; registers and flags of the host that are not the VM's;
immediates that the processor sign-extends, or that are written in chunks until
nothing remains; a displacement masked to its field without a test; running
past the last instruction; failed mappings; a size that is doubled and shifted
until it overflows; labels that share a name or an address, and numbers that two
tools take for signed or unsigned.

## Modules

    ISA <- VM <- Interpreter <- InterpreterProofs
     |            MCInterpreter
     +-- Asm <- TestPrograms
     |    +---- Tools <- MCTools, ToolsProofs
     +-- Jit <- JitProofs
          +---- MCJit
          +---- Native <- X64 <- MCX64   (both back ends implement VM
                  |    <- A64 <- MCA64    by a refinement mapping)
                  +---- NativeProofs <- X64Proofs, A64Proofs
    NativeCode <- Native
    Recursion <- NativeProofs, ToolsProofs
    VmRun <- VmRunProofs
          <- MCVmRun

**ISA** has registers, instructions, lengths, flags and the arithmetic. A word
is two halves of `HalfMod` each (2^32 in the code). The engines put text and
stack at different addresses of the host, so a value is tagged: a number, the
address of an instruction, an address relative to the initial SP, or *junk* (a
byte of memory never written, an address computed out of the model). Two
engines agree when tag and value do. A comparison the machine gives no promise
about (the address of code with a number, say) may set any flag.

**VM** is the abstract specification: what every engine promises. It leaves
open exactly what the engines do differently: FLAGS after an instruction that
some engine computes with the host's flags, and so both ways out of a
conditional jump with no CMP; R0 and the stack below SP after a system call;
what follows when a program leaves its text or its memory, status `wild`.

**Interpreter** has an action per label of `exec_program`, named as the label,
each the whole handler up to its `DISPATCH`. `reg[PC]` is `pc`, `reg[FLAGS]` is
`flags`, the rest of `reg` is `regs`. The jump at address 0 is `vm_exit`,
`sys_enter(id)` (with the return at `_ret` that follows) or `sys_enter_abort`.

**Jit** is the translator that the back ends share. `vm` and `arch` are
`jpos`; `block` records where the code of each instruction is, how long it is
and where it goes. Sizes of native code are parameters, so its theorems hold
for both back ends: `Sized` is what a back end owes, that the slots reserved
for a transfer hold its longest code. A second deferral in `jit_deferred` is
the phase `undefined`: it appends to the vector it iterates over.

**NativeCode** is native code as data: where the instructions of a sequence
start, a text and what it is after a sequence is written over a part of it.

**Native** is what the back ends share beyond Jit: `text`, the native
instructions at the offsets where they start, which the second pass overwrites;
the processor's state (`ip`, `ar`, `fl`, `ram`) and what it displayed; and `obs`,
the VM as the program sees it at the start of each of its instructions.
`InPlace` says what the processor finds when the translator is done: the code of
every instruction at its place, made for its target's place, with nops in the
slots left over. `VM` is instantiated on `obs`: a return address of native code is shown as the address
of the CALL's next instruction, in whichever slot after the call it lies.

**X64** and **A64** say what the emit functions write (operation, operands and
length of each native instruction, in the order of the code) and how the
processor runs it, one action per kind of native instruction.
`host_sys_enter` is `JIT::sys_enter` together with what a function of the host
may do under the ABI: overwrite caller-saved registers, flags, and the stack
below its stack pointer. On x86_64 that is the VM's stack, on AArch64 the
host's: the VM's SP is a register of its own there. A64 has the pairs that the
entry and exit sequences store and load, the chunks of `emit_mov_reg_imm` and
the masked field of `emit_b_cond`. A load or store with writeback to its own
register, which `PUSH SP` and `POP SP` become, may leave any of the values that
the architecture allows.

**VmRun** is one call of `vm_run`. Each allocation may fail where the code
allocates; `text_mem_size` and `data_mem_size` are as the constructors compute
them; the native code has any length up to the bound that Jit's `TextBound` has.
The size in bytes is `mem_size_mb << 20` modulo `SizeMod`, also when it overflows.
Loading a program has no test of its size, as in the code: one that is larger than
its memory goes to `undefined`. The interpreter returns at once from a program with
no instruction.

**Asm** is the assembler's pass and `link`, over lines that are labels or
instructions: low-level labels mangled with the last high-level one, references
lowered, immediates wrapped. Every program of the runs is written as a source
and put through it. **TestPrograms** holds those programs: the test suite's,
with smaller numbers (8-bit words and fewer repetitions) and their expected
output, and families of short programs that no test has.

**Tools** runs the assembler and then the disassembler, a line or an instruction
at a time: the numbers `int.to_bytes` refuses and the references that `link`
does not find or whose address is no word (phase `failed`), the bytes, the sorted labels file, decoding, the
labels read from the file or made up, and the lines written. A line that is
missing its bracket or its operand is `torn`: the assembler does not read it.

## Runs

| Run | Checks | Bounds |
|---|---|---|
| `interpreter` | the thirteen test programs display what their tests expect (`DisplaysExpected`), run to their exit (`TestsExit`) and leave an empty stack there (`StackCleared`); `TypeOK`, and that the interpreter implements VM (`Spec`) | 8-bit words, 12 stack slots, one heap cell; the tests, all programs of up to three of 17 stack lines, and conditional jumps after changes and comparisons |
| `interpreter_sint` | the signed display call as the document describes it: violated | the test programs |
| `jit_linking` | `EndToEnd`, `Linked`, `UndefinedOnlyDangling`, `TextBound`, `Reach`, `JitTypeOK`, `JitEnds` | all programs of two parts of up to two lines with backward, forward and dangling transfers, and the tests |
| `x64` | the native code implements VM (`IsVM`); the host has its registers and stack back (`HostRestored`); the code that is run is `InPlace`; the tests' output and exit | pairs of pieces (single lines, system calls with and without a frame or a known ID) and the tests, 36 stack slots |
| `a64` | the same for AArch64, and `BranchesKept`: no conditional branch loses a part of its distance | the same programs, 24 stack slots, immediates of four chunks |
| `x64_immediates` | MOV of any immediate: violated | a MOV and an exit |
| `x64_push_sp` | PUSH of SP as documented: violated | a PUSH and an exit |
| `vm_run` | `MemoryAsAsked`, `AllOrNothing`, `FitsMemory`, `Released`, `Ends`, `TypeOK` | sizes of 12 bits, a MiB of 64 bytes, programs below and above what fits |
| `vm_run_data` | the data memory is mapped when a program starts: violated | as `vm_run` |
| `vm_run_adjust` | the size is adjusted for any request: violated | requests in the upper half of the range too |
| `tools` | `LinkedByName`, `ReadsWhatIsWritten`, `RoundTrip`, `NamesTarget`, `Ends`, `TypeOK` | all sources of up to four of ten parts and three of thirteen (labels high, low, with `$`, with capitals, defined twice; transfers to labels and numbers), low-level labels under two high-level ones, a label at the last address that is a word and one behind it, every instruction with operands at the ends of their ranges |
| `disasm_store` | a STORE is written with its bracket: violated | a STORE and another instruction |

Deadlock is not checked: a run of a program stops when it exits, aborts or goes
wild, and a tool or a call of `vm_run` when it is done.

The six violations are described under `findings`: an immediate that is
sign-extended, PUSH SP in native code, the swapped description of the two
display calls, an unnoticed failure of `mmap`, a loop that never ends for a huge
request, and the bracket that the disassembler leaves out.

What the properties of the tools say where the code does less than a reader may
expect: a label written with capitals is never found (`Bad` holds of a source
that uses it); a label defined twice has its last address, also for references
before it. `NamesTarget` is of every source and every transfer, and says exactly
which operands mean their target to the assembler: without the labels file those
of an instruction; with it those of an address whose label is printed, if that is
the last one printed of its name, and for a low-level one if the transfer is
printed under the same high-level label. A transfer to a number may fail each of
these: it is then written with no operand (`torn`), or with a label that means
another address. So may one to a label: of two labels at one address only the last of the
sorted file remains, which is the low-level one when the high-level one starts with
`$`. `RoundTrip` is of sources that are `Canonical`, which avoid all of that.

### Why the bounds are enough

- Words of 8 bits have a sign, two halves and a sign-extension of the lower
  half, which is all that the code tells apart of a number. Three lines put any
  two lines of a family next to each other after any third, and jumps back to
  `start` repeat them; the test programs, with recursion and loops, cover the
  long runs.
- `FillStack` leaves room for one value, so that the stack is full and empty
  within three lines. With 36 slots the nine that a call of the host needs on
  x86_64 (`HostRoom`: eight saved registers and a return address) fit below any
  frame of the programs that are run. On AArch64 it needs none of the VM's.
- The families have transfers forward, backward, to themselves, to the end and
  into an instruction, so every transfer is jitted in both passes.
- `AddrLen` is 7 in run `x64`, so that a transfer is shorter than its slots and
  NOPs remain and are run, and 10 in the two others of x86_64: both forms of
  `emit_mov_reg_imm` for addresses of the host.
- `ChunkMod` is 4: an immediate of a word is up to four chunks, as in the code,
  and each number of them occurs, with chunks of zeros between others.
  `AddrParts` is 3: an address of the host leaves slots to fill. `CondReach` is
  beyond the native code of the programs; the proof has any.
- A MiB of 64 bytes keeps the ratio of native code and text memory. Sizes of 12
  bits leave requests that fit (up to 32), whose doubling or whose size in bytes
  overflows (63 to 2048), and in `vm_run_adjust` those the loop does not reach.
  Its program sizes go from 0 to 1000 bytes, on both sides of what fits the least
  memory (256 bytes), and with their native code a quarter of that. A larger program
  is written past the end of its memory, in the run as in the code, since nothing
  compares the two: `FitsMemory` is of programs with `Room` in the memory that was
  asked for, and says that neither the doubling nor the overflow takes it away.
- The eight bytes of an immediate are bits here and the two of a displacement
  digits of 8, so that the runs have a number at, below and above each end of
  each range, signed and unsigned.
- `x64` and `a64` leave out the programs the findings are about (`Handled`): a
  transfer to no instruction, PUSH or POP of SP, on x86_64 an immediate that
  changes when it is sign-extended, on AArch64 a program beyond `CondReach`. In
  everything else the native code is checked to be VM. `ShortBodies` has no loop
  that displays, whose output would have no bound.

### Fairness

Fairness is weak fairness of the whole next-state relation or, in the back
ends, of the translator and of the processor (`FairSpec`). The program is one
thread that nothing suspends and that has no input: it takes a step whenever it
has one. In VmRun the program itself is one step, so `Ends` says that `vm_run`
returns for a program that does. The tools read files that are there.

## Proofs

`InterpreterProofs` proves, for every word width, bit operation, stack depth
and set of well-formed programs:

- `TypeCorrect`: registers, memory and output keep their types.
- `Implements`: the interpreter implements VM. Every handler is a step of VM;
  that needs the types only where VM asks for memory to hold values.

`JitProofs` proves, for every program and every back end with `Sized`:

- `JitTypeCorrect`, `Layout` (`EndToEnd`), `Linking` (`Linked`), `DanglingOnly`
  (`UndefinedOnlyDangling`), `TextFits` (`TextBound`) and `Reaches` (`Reach`).

The inductive invariant `JitInv` joins them. `Linked` alone is not inductive:
`LinkedOrPending` says that a transfer is linked or its position is still to
be visited, `DeferredOK` that a deferred position is that of a transfer and of
its block, `Progress` that exactly the instructions before `jpos.vm` are mapped
and have blocks, `PassOrder` that the second pass starts after the first and
ends when every position was visited, and `CodeBound` bounds the code so far by
the text so far. Each action has a lemma of its own, with a step per conjunct.
`Reach` needs more: `Near` bounds the code between any two mapped addresses, and
from each to the end of the code so far, by their distance in the program.

`X64Proofs` and `A64Proofs` prove that the two JITs, which write code as they
translate and then run it, implement Jit (`Translator`), so that its theorems are
theirs (`CodeLinked`): no step of the processor, and no call of the host, is one
of the translator's. `BranchesReach` uses `JitInv` and `Near` to prove that in AArch64 code
shorter than `CondReach` the masked field of a conditional branch is its distance.

Both prove `CodeInPlace`, that the text is `InPlace` when the processor starts on
it. What makes it inductive is `CodeInv` of NativeProofs: every block of an
instruction that is not deferred holds its code, every block that is holds nops
in each of its slots, and, since blocks lie end to end (`JitInv`), what is
written to one leaves what the others hold. Which
instruction starts where is a sum over a sequence, a recursive function: the
unfolding of one is a lemma of Recursion, which proves that it has a solution
from the library's well-founded order, with sets in the place of predicates.
Starts and Bytes of concatenated, patched and repeated sequences are lemmas of
NativeProofs. With them `SizesFit` proves `Sized` for each back
end, with the bound `Expansion` that it has: what the translator's theorems
assume of a back end is what these two are.

`HostGetsBack` of `A64Proofs` says: in the AArch64 JIT, as long as all the code
is within reach of a conditional branch, the host has its stack, its frame
pointer and the registers that a called function preserves back when `text_mem`
returns (`HostRestored`), for every program, word width and depth of the stack.
The invariant `HostInv` says for every place of the native code what registers and
memory hold when the processor comes there. `Deep(A, M, n)`: n slots of the
host's stack have the host's values. `Ready`: besides, no other place has an
address of the host's stack (`Tame`), nor one of native code that the program
should not come to (`Entries`: the mapped addresses, the ends of blocks among
them, and the exit behind the program). So no access of the program's reaches
the saved registers, and no transfer or return goes into the middle of the code
around it. Each of the entry sequence, the stub, a block, the exit and the way
back has a lemma for what its next native instruction does; which one that is
follows from `CodeInv`, and how long a block is from `Laid`. It may also lose the
program (`wild`, `aborted`), and then promises nothing. The stub takes the exit's
call for an exit and no other since the comparison with `SYSCALL_VM_EXIT` is of
numbers there. Without the reach a masked branch may go anywhere, so the theorem
asks for it, as `BranchesKept` does.

`HostGetsBack` of `X64Proofs` says the same of the x86_64 JIT, where the branches
have 32 bits and nothing has to be assumed of the code's size. Its invariant has
the same form, `CodeInv /\ Laid /\ HostInv`, and TLC checked `HostInv` on the programs
of run `x64`. What differs is the stack: the processor's is the host's until the
entry sequence has saved its registers (`Entering`) and its pointer, then the
program's, which the stub switches to while it calls the host (`InStub`), and the
host's again on the way back (`Leaving`). `Kept` says that the slots of the host's
stack and `host_sp` have what the exit sequence loads; `Tame`, that neither a
register nor the memory of the program has an address of them, the stack pointer
included, so that a program that moves it does not push over them. An operation
with an immediate, a CALL or a JMP is two native instructions, the first of which
loads the JIT's own register, so `InBlock` has the place between them.

`VmRunProofs` proves, for every size, request and program:

- `RunTypeCorrect`, `AsAsked` (`MemoryAsAsked`), `NeverLess` (`AllOrNothing`),
  `KeepsToMemory` (`FitsMemory`, of programs with `Room`) and `AllReleased`
  (`Released`).

None of them is inductive, and what they need is arithmetic: while the size is
doubled it divides `SizeMod` (`PowerAssumption`: a power of two), so a doubling
that overflows leaves 0 and never a smaller size, and so does the shift into bytes.
The rest of the invariant says which memory is held in which phase.

`ToolsProofs` proves, for every set of sources, word and number of digits:

- `TypeCorrect`: the instructions and label addresses that the assembler collects,
  the bytes and the labels file it writes, and the instructions and labels that the
  disassembler reads keep their types. The lines written are not part of it.
- `LinksByName` (`LinkedByName`): a linked reference has the address of the last
  line that defines its label, a low-level one's under its high-level label.
- `Reads` (`ReadsWhatIsWritten`): the disassembler reads the instructions that the
  assembler wrote, at their addresses.
- `RoundTrips` (`RoundTrip`): a canonical source comes out as it went in.

The invariant `Inv` says of each phase what has become of the source so far: the
assembler after `pos` lines is the pass over them, a recursive function whose
unfolding is a lemma of Recursion, and the disassembler has read exactly the
instructions below `cur_addr`. The last label of a name is found by the invariant
of the pass (`Links`): `addr` has the address of the greatest line that defines
the label, and every reference the mangled name that its line gives it. That the
bytes are read back takes three steps: the digits of a number to a base are
those that `int.to_bytes` writes, and `Number` and `Signed` return it
(`Digits`, `ReadsBytes`, `ReadsSigned`); an instruction is read from any bytes that
start with its encoding (`ReadsInstruction`, by the form of its operands); and
the encodings lie end to end in the order of addresses, so that the bytes from
the address of an instruction on start with its encoding (`Laid`,
`BytesInPlace`). The round trip adds `InvLabels`: in a canonical source (`Clean`)
each label is in front of an instruction, so that no two have an address, the
labels file has each of them once (`LabelsFile`, `SingleLabels`) and those that
have been read are those of the addresses of their lines. Then each instruction
is written as the line that it was, with the line of its label before it
(`ShowsLines`), and the lines in the order of addresses are those of the source
(`WritesSource`).

The proofs assume what the modules' assumptions name: the width of words, that
bit operations stay in a word, that programs are as the assembler makes them
(instructions end to end after the jump at 0), `Sized`, for VmRun powers of
two, and for the tools that a word is eight
digits and a source a sequence of labels and instructions. TLC evaluates them in
the runs.

Checked by TLC and not proved: `IsVM`, what native code does to a program when it
runs; of the tools, `NamesTarget`, which numbers made-up labels by `ToString` and
assembles the output again; the outputs of the test programs (`DisplaysExpected`);
and liveness (`TestsExit`, `JitEnds`, `Ends`), which is beyond the prover.

## Not modelled

- The bits of native encodings, the 26-bit reach of `emit_b` (over the stub, and
  from the end of the code back to it: 128 MiB of native code) and alignment of
  the stack when the host is called.
- The regular expressions that take a source line apart, comments and blanks;
  names of registers and instructions that no table has; bytes that the
  assembler does not write, such as a LOAD in another access mode.
- Trace and dump output under `-d`, which changes no state; `objdump`; the
  wrapper, which parses its arguments and calls `vm_run` once; makefiles and
  test scripts.
- Bytes that are not instructions: opcodes outside the table, execution that
  leaves the text or enters an instruction, are `wild`. An overflow of the
  interpreter's signed additions is taken to wrap.
- Numeric addresses of the text and stack, which differ between the engines.

## How it was built and what could follow

In the order of importance: ISA, VM and the interpreter with its proofs; the
translator with its proofs; the x86_64 code; the life cycle; the AArch64 code on
what the back ends share; the tools; the proofs of the life cycle and of what
the translator's theorems mean for the back ends. What could follow:

1. **`IsVM` proved**: the places of `HostInv` with what the program has computed by
   then, one per native instruction of every block.
2. A heap shared by the native runs and the interpreter's, once addresses past
   the text are given one meaning.
