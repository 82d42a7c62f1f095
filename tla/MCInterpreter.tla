--------------------------- MODULE MCInterpreter ---------------------------
(***************************************************************************)
(* The interpreter on the programs of the test suite, and on all the short  *)
(* programs of two families.                                                *)
(***************************************************************************)
EXTENDS Interpreter, TestPrograms

\* A program of the test suite that has exited displayed what its test expects.
DisplaysExpected ==
  status = "exited" => \A e \in Expected : e[1] = prog => e[2] = out

\* src/doc/vm.md:103-104: parameters are cleared by the callee, returned values by the
\* caller. So the programs of the test suite, which keep to it, have an empty stack at
\* their exit: no call of a subroutine, of the display or of the exit itself left a slot
\* of its frame or took one too many.
StackCleared == status = "exited" /\ prog \in TestSuite => regs["SP"] = Stk(0)

\* Every program of the test suite runs to its exit: it does not loop, abort or
\* leave its text.
TestsExit == prog \in TestSuite ~> status = "exited"

MCPrograms == StackFamily \cup FlagFamily \cup TestSuite

\* doc/vm.md:130-131: SYSCALL_DISPLAY_SINT displays its parameter as an
\* unsigned integer.
SintDisplaysUnsigned ==
  [][/\ pc = SYS_ENTER_ADDR /\ mem[Id] = Num(SYSCALL_DISPLAY_SINT)
     /\ out' # out /\ Last(out').tag = "num"
       => Last(out').val >= 0]_vars
=============================================================================
