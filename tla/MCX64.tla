------------------------------- MODULE MCX64 -------------------------------
(***************************************************************************)
(* The x86_64 JIT on the programs of the test suite and on short programs.  *)
(***************************************************************************)
EXTENDS X64, TestPrograms

\* A program of the test suite that has exited displayed what its test expects.
DisplaysExpected ==
  obs.status = "exited" => \A e \in Expected : e[1] = prog => e[2] = obs.out

\* Every program of the test suite runs to its exit: the translator ends, and the
\* native code does not loop, abort or leave the text.
TestsExit == prog \in TestSuite ~> obs.status = "exited"

\* What this back end is right about besides: no immediate that changes when its
\* lower half is sign-extended.
Handled(p) ==
  /\ Targeted(p) /\ KeepsSP(p)
  /\ \A a \in DOMAIN p.code : FitsHalf(p.code[a].imm) => SignExtended(p.code[a].imm) = p.code[a].imm

ShortPrograms == {p \in ShortBodies : Handled(p)}

NativePrograms == ShortPrograms \cup TestSuite
-----------------------------------------------------------------------------
\* What the documents say that the back end does not do.

\* The program carries out an instruction of op at the next step of the VM.
Does(op) == /\ obs.status = "running" /\ obs' # obs
            /\ obs.pc \in DOMAIN prog.code /\ prog.code[obs.pc].op = op

\* doc/vm.md:30 and :70: MOV copies its immediate, which is any 64-bit value.
MovesAnyImmediate ==
  [][LET i == prog.code[obs.pc]
     IN  Does("MOV") /\ i.am = "IMM" => obs'.regs[i.dst] = Num(i.imm)]_obs

\* doc/vm.md:54: PUSH subtracts 8 from SP and stores the register where SP then
\* points to; that register may be SP.
PushSubtractsFirst ==
  [][LET i == prog.code[obs.pc]
     IN  Does("PUSH") => obs'.mem[obs'.regs["SP"]] = obs'.regs[i.dst]]_obs

ImmediatePrograms == {Tailed(<<RI("MOV", "R0", n)>>) : n \in {5, 9, -8, 100, -1}}
PushPrograms      == {Tailed(<<RI("MOV", "R0", 5), R("PUSH", r)>>) : r \in {"R0", "SP"}}
=============================================================================
