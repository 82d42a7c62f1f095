------------------------------- MODULE MCA64 -------------------------------
(***************************************************************************)
(* The AArch64 JIT on the programs of the test suite and on short programs. *)
(***************************************************************************)
EXTENDS A64, TestPrograms

\* A program of the test suite that has exited displayed what its test expects.
DisplaysExpected ==
  obs.status = "exited" => \A e \in Expected : e[1] = prog => e[2] = obs.out

\* Every program of the test suite runs to its exit: the translator ends, and the
\* native code does not loop, abort or leave the text.
TestsExit == prog \in TestSuite ~> obs.status = "exited"

\* A conditional jump of the program has its target within reach.
Reached(p) == A64Prologue + Expansion * p.size <= CondReach

Handled(p) == Reached(p) /\ Targeted(p) /\ KeepsSP(p)

ShortPrograms == {p \in ShortBodies : Handled(p)}
NativePrograms == ShortPrograms \cup TestSuite
=============================================================================
