------------------------------- MODULE MCJit -------------------------------
(***************************************************************************)
(* The translator alone, with sizes of native code like those of x86_64.    *)
(***************************************************************************)
EXTENDS Jit, TestPrograms

MCSize(i)  == IF i.op \in {"CALL", "JMP"} THEN 10
              ELSE IF i.op \in CondOp THEN 6 ELSE InstrLen(i)
MCSlots(i) == IF i.op \in CondOp THEN 6 ELSE 13

LinkPrograms == LinkFamily \cup TestSuite
=============================================================================
