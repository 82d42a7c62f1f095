----------------------------- MODULE JitProofs -----------------------------
(***************************************************************************)
(* Theorems about the translator, for every program and every back end that *)
(* reserves enough slots: its blocks lie end to end, every transfer is       *)
(* linked to the code of its target unless the program has a transfer to no  *)
(* instruction, and the native code is bounded by the program.               *)
(***************************************************************************)
EXTENDS Jit, TLAPS

-----------------------------------------------------------------------------
\* The inductive invariant. Before the program nothing is mapped; from then on
\* the instructions before jpos.vm are, and each of them but the stub's has a
\* block. A transfer whose block has no target yet is still among the positions
\* that jit_deferred has to visit.

Progress ==
  IF phase = "start"
  THEN vm = SYS_ENTER_ADDR /\ DOMAIN va2aa = {} /\ DOMAIN block = {} /\ deferred = <<>>
  ELSE /\ vm \in DOMAIN prog.code \cup {prog.size}
       /\ vm > SYS_ENTER_ADDR
       /\ DOMAIN va2aa = {a \in DOMAIN prog.code : a < vm}
       /\ DOMAIN block = {a \in Body : a < vm}

PassOrder ==
  /\ next >= 1
  /\ phase \in {"start", "program"} => next = 1
  /\ phase \in {"deferred", "done", "undefined"} => vm = prog.size
  /\ phase = "done" => next > Len(deferred)

IsLinked(a) == /\ prog.code[a].tgt \in DOMAIN va2aa
               /\ block[a].to = va2aa[prog.code[a].tgt]

Pending(a) == \E k \in DOMAIN deferred : k >= next /\ deferred[k].vm = a

LinkedOrPending ==
  \A a \in DOMAIN block : prog.code[a].op \in BranchOp => IsLinked(a) \/ Pending(a)

DeferredOK ==
  \A k \in DOMAIN deferred : /\ deferred[k].vm \in DOMAIN block
                             /\ prog.code[deferred[k].vm].op \in BranchOp
                             /\ deferred[k].arch = block[deferred[k].vm].at

CodeBound ==
  arch <= Prologue + Expansion * vm + (IF phase = "done" THEN Guard ELSE 0)

JitInv == /\ JitTypeOK /\ Progress /\ PassOrder /\ LinkedOrPending /\ DeferredOK
          /\ EndToEnd /\ CodeBound /\ UndefinedOnlyDangling
-----------------------------------------------------------------------------
\* What a well-formed program gives at the address a of an instruction.
LEMMA ProgramStep ==
  ASSUME prog \in Programs, NEW a \in DOMAIN prog.code
  PROVE  /\ a \in Nat /\ a < prog.size /\ prog.size \in Nat
         /\ prog.code[a] \in Instr
         /\ InstrLen(prog.code[a]) \in Nat /\ InstrLen(prog.code[a]) > 0
         /\ a + InstrLen(prog.code[a]) \in DOMAIN prog.code \cup {prog.size}
         /\ \A b \in DOMAIN prog.code : a < b => a + InstrLen(prog.code[a]) <= b
         /\ Sized(prog.code[a])
<1>1. ProgramOK(prog)
  BY ProgramAssumption
<1>2. a \in 0 .. prog.size - 1 /\ prog.size \in Nat /\ prog.code[a] \in Instr
  BY <1>1 DEF ProgramOK
<1>3. InstrLen(prog.code[a]) \in Nat /\ InstrLen(prog.code[a]) > 0
  BY DEF InstrLen
<1>4. Sized(prog.code[a])
  BY SizeAssumption
<1> QED
  BY <1>1, <1>2, <1>3, <1>4 DEF ProgramOK

LEMMA FirstStep ==
  ASSUME prog \in Programs
  PROVE  /\ SYS_ENTER_ADDR \in DOMAIN prog.code
         /\ FirstAddr \in DOMAIN prog.code \cup {prog.size}
         /\ {a \in DOMAIN prog.code : a < FirstAddr} = {SYS_ENTER_ADDR}
<1>1. ProgramOK(prog)
  BY ProgramAssumption
<1>2. SYS_ENTER_ADDR \in DOMAIN prog.code /\ prog.code[SYS_ENTER_ADDR].op = "JMP"
  BY <1>1 DEF ProgramOK
<1>3. InstrLen(prog.code[SYS_ENTER_ADDR]) = 9
  BY <1>2 DEF InstrLen, BranchOp, MoveOp, CondOp
<1>4. FirstAddr = SYS_ENTER_ADDR + InstrLen(prog.code[SYS_ENTER_ADDR])
  BY <1>3 DEF FirstAddr, SYS_ENTER_ADDR
<1>5. \A a \in DOMAIN prog.code : a = SYS_ENTER_ADDR \/ FirstAddr <= a
  BY <1>2, <1>4, ProgramStep DEF SYS_ENTER_ADDR
<1>6. \A a \in DOMAIN prog.code : a \in Nat
  BY ProgramStep
<1> QED
  BY <1>2, <1>4, <1>5, <1>6, ProgramStep DEF SYS_ENTER_ADDR, FirstAddr

LEMMA JitInvInit == JitInit => JitInv
<1> SUFFICES ASSUME JitInit PROVE JitInv
  OBVIOUS
<1>1. DOMAIN va2aa = {} /\ DOMAIN block = {} /\ deferred = <<>>
  BY DEF JitInit
<1>2. JitTypeOK
  BY <1>1 DEF JitInit, JitTypeOK, Phase, SYS_ENTER_ADDR
<1>3. Progress /\ PassOrder /\ UndefinedOnlyDangling
  BY <1>1 DEF JitInit, Progress, PassOrder, UndefinedOnlyDangling
<1>4. LinkedOrPending /\ DeferredOK /\ EndToEnd
  BY <1>1 DEF LinkedOrPending, DeferredOK, EndToEnd
<1>5. CodeBound
  <2>1. Expansion * 0 = 0
    BY LayoutAssumption
  <2> QED
    BY <2>1, LayoutAssumption DEF JitInit, CodeBound, SYS_ENTER_ADDR
<1> QED
  BY <1>2, <1>3, <1>4, <1>5 DEF JitInv
-----------------------------------------------------------------------------
LEMMA PrologueStep == JitInv /\ emit_prologue => JitInv'
<1> SUFFICES ASSUME JitInv, emit_prologue PROVE JitInv'
  OBVIOUS
<1> USE DEF JitInv
<1>1. /\ vm = SYS_ENTER_ADDR /\ DOMAIN block = {} /\ deferred = <<>> /\ prog \in Programs
      /\ vm' = FirstAddr /\ next = 1
  BY DEF Progress, emit_prologue, JitTypeOK, FirstAddr, SYS_ENTER_ADDR, PassOrder
<1>2. /\ DOMAIN va2aa' = {SYS_ENTER_ADDR} /\ va2aa'[SYS_ENTER_ADDR] = StubAt
      /\ UNCHANGED <<prog, deferred, next, block>> /\ phase' = "program" /\ arch' = Prologue
  BY <1>1 DEF emit_prologue
<1>3. JitTypeOK'
  BY <1>1, <1>2, FirstStep, LayoutAssumption DEF JitTypeOK, Phase, FirstAddr
<1>4. Progress'
  BY <1>1, <1>2, FirstStep DEF Progress, Body, FirstAddr, SYS_ENTER_ADDR
<1>5. PassOrder' /\ UndefinedOnlyDangling'
  BY <1>1, <1>2 DEF PassOrder, UndefinedOnlyDangling
<1>6. LinkedOrPending' /\ DeferredOK' /\ EndToEnd'
  BY <1>1, <1>2 DEF LinkedOrPending, DeferredOK, EndToEnd
<1>7. CodeBound'
  <2>1. Expansion * FirstAddr \in Nat
    BY LayoutAssumption DEF FirstAddr
  <2> QED
    BY <1>1, <1>2, <2>1, LayoutAssumption DEF CodeBound
<1> QED
  BY <1>3, <1>4, <1>5, <1>6, <1>7

LEMMA AppendFacts ==
  ASSUME NEW S, NEW s \in Seq(S), NEW e \in S
  PROVE  /\ Append(s, e) \in Seq(S)
         /\ DOMAIN s \subseteq DOMAIN Append(s, e)
         /\ \A k \in DOMAIN s : Append(s, e)[k] = s[k]
         /\ \A k \in DOMAIN Append(s, e) : k \in DOMAIN s \/ Append(s, e)[k] = e
         /\ Len(s) + 1 \in DOMAIN Append(s, e) /\ Append(s, e)[Len(s) + 1] = e
         /\ Len(s) + 1 >= 1
OBVIOUS

LEMMA InstructionStep == JitInv /\ jit_vm_instruction => JitInv'
<1> SUFFICES ASSUME JitInv, jit_vm_instruction PROVE JitInv'
  OBVIOUS
<1> USE DEF JitInv
<1> DEFINE i   == prog.code[vm]
           d   == Defers(i, Recorded)
           len == BlockLen(i, d)
           b   == [at |-> arch, len |-> len, to |-> Goes(i, Recorded)]
           jp  == [arch |-> arch, vm |-> vm]
<1>1. /\ prog \in Programs /\ phase = "program" /\ vm < prog.size /\ vm > SYS_ENTER_ADDR
      /\ vm \in Nat /\ arch \in Nat /\ next = 1
      /\ DOMAIN va2aa = {a \in DOMAIN prog.code : a < vm}
      /\ DOMAIN block = {a \in Body : a < vm}
      /\ vm \in DOMAIN prog.code
  <2>1. prog.size \notin DOMAIN prog.code \/ vm # prog.size
    BY DEF jit_vm_instruction, JitTypeOK
  <2> QED
    BY <2>1, ProgramStep DEF jit_vm_instruction, JitTypeOK, Progress, PassOrder
<1>2. /\ \A a \in DOMAIN prog.code : a \in Nat
      /\ vm + InstrLen(i) \in DOMAIN prog.code \cup {prog.size}
      /\ \A a \in DOMAIN prog.code : vm < a => vm + InstrLen(i) <= a
      /\ InstrLen(i) \in Nat /\ InstrLen(i) > 0 /\ prog.size \in Nat
  BY <1>1, ProgramStep
<1>3. len \in Nat /\ Size(i) \in Nat /\ Size(i) <= len /\ len <= Expansion * InstrLen(i)
  BY <1>1, ProgramStep DEF Sized, Defers, BlockLen
<1>4. /\ va2aa' = Recorded /\ UNCHANGED <<prog, phase, next>>
      /\ block' = [a \in DOMAIN block \cup {vm} |-> IF a = vm THEN b ELSE block[a]]
      /\ deferred' = IF d THEN Append(deferred, jp) ELSE deferred
      /\ vm' = vm + InstrLen(i) /\ arch' = arch + len
  BY DEF jit_vm_instruction
<1>5. /\ DOMAIN va2aa' = {a \in DOMAIN prog.code : a < vm'}
      /\ DOMAIN block' = {a \in Body : a < vm'}
      /\ DOMAIN va2aa \subseteq DOMAIN va2aa'
      /\ vm \notin DOMAIN va2aa /\ vm \notin DOMAIN block
      /\ vm \in DOMAIN va2aa' /\ vm \in DOMAIN block'
  <2>1. \A a \in DOMAIN prog.code : a < vm' <=> a < vm \/ a = vm
    BY SMTT(30), <1>1, <1>2, <1>4
  <2>2. DOMAIN va2aa' = DOMAIN va2aa \cup {vm} /\ DOMAIN block' = DOMAIN block \cup {vm}
    BY <1>4 DEF Recorded
  <2>3. vm \in Body
    BY <1>1 DEF Body, SYS_ENTER_ADDR
  <2>4. Body \subseteq DOMAIN prog.code /\ ~(vm < vm)
    BY <1>1 DEF Body
  <2> HIDE DEF i, d, len, b, jp
  <2> QED
    BY <1>1, <2>1, <2>2, <2>3, <2>4
<1>6. /\ \A a \in DOMAIN va2aa : va2aa'[a] = va2aa[a]
      /\ va2aa'[vm] = arch
      /\ \A a \in DOMAIN block : block'[a] = block[a]
      /\ block'[vm] = b
  BY <1>4, <1>5 DEF Recorded
<1>7. Goes(i, Recorded) \in Nat \cup {Unmapped}
  <2>1. \A a \in DOMAIN Recorded : Recorded[a] \in Nat
    BY <1>1 DEF Recorded, JitTypeOK
  <2> QED
    BY <2>1 DEF Goes, as_arch_addr
<1>8. b \in [at : Nat, len : Nat, to : Nat \cup {Unmapped}]
  BY <1>1, <1>3, <1>7
<1>9. /\ deferred' \in Seq([arch : Nat, vm : Nat])
      /\ DOMAIN deferred \subseteq DOMAIN deferred'
      /\ \A k \in DOMAIN deferred : deferred'[k] = deferred[k]
      /\ \A k \in DOMAIN deferred' : k \in DOMAIN deferred \/ (d /\ deferred'[k] = jp)
      /\ d => \E k \in DOMAIN deferred' : k >= next /\ deferred'[k] = jp
  <2>1. deferred \in Seq([arch : Nat, vm : Nat]) /\ jp \in [arch : Nat, vm : Nat]
    BY <1>1 DEF JitTypeOK
  <2> HIDE DEF i, d, len, b, jp
  <2>2. CASE d
    <3> DEFINE app == Append(deferred, jp)
    <3>1. deferred' = app
      BY <1>4, <2>2, Zenon
    <3>2. /\ app \in Seq([arch : Nat, vm : Nat])
          /\ DOMAIN deferred \subseteq DOMAIN app
          /\ \A k \in DOMAIN deferred : app[k] = deferred[k]
          /\ \A k \in DOMAIN app : k \in DOMAIN deferred \/ app[k] = jp
          /\ Len(deferred) + 1 \in DOMAIN app /\ app[Len(deferred) + 1] = jp
          /\ Len(deferred) + 1 >= 1
      BY <2>1, AppendFacts
    <3> HIDE DEF app
    <3>3. /\ deferred' \in Seq([arch : Nat, vm : Nat])
          /\ DOMAIN deferred \subseteq DOMAIN deferred'
          /\ \A k \in DOMAIN deferred : deferred'[k] = deferred[k]
          /\ \A k \in DOMAIN deferred' : k \in DOMAIN deferred \/ deferred'[k] = jp
          /\ Len(deferred) + 1 \in DOMAIN deferred' /\ deferred'[Len(deferred) + 1] = jp
          /\ Len(deferred) + 1 >= 1
      BY <3>1, <3>2, Zenon
    <3>4. Len(deferred) + 1 >= next
      BY <1>1, <3>3, Zenon
    <3>5. \E k \in DOMAIN deferred' : k >= next /\ deferred'[k] = jp
      BY <3>3, <3>4, Zenon
    <3> QED
      BY <2>2, <3>3, <3>5, Zenon
  <2>3. CASE ~d
    <3>1. deferred' = deferred
      BY <1>4, <2>3, Zenon
    <3>2. /\ DOMAIN deferred \subseteq DOMAIN deferred'
          /\ \A k \in DOMAIN deferred : deferred'[k] = deferred[k]
          /\ \A k \in DOMAIN deferred' : k \in DOMAIN deferred
      BY <3>1, Zenon
    <3>3. deferred' \in Seq([arch : Nat, vm : Nat])
      BY <2>1, <3>1
    <3> QED
      BY <2>3, <3>2, <3>3, Zenon
  <2> QED
    BY <2>2, <2>3
<1>10. JitTypeOK'
  <2>1. \A a \in DOMAIN va2aa' : va2aa'[a] \in Nat
    BY <1>1, <1>4 DEF Recorded, JitTypeOK
  <2>2. \A a \in DOMAIN block' : block'[a] \in [at : Nat, len : Nat, to : Nat \cup {Unmapped}]
    BY <1>4, <1>8 DEF JitTypeOK
  <2>3. DOMAIN block' \subseteq Body' /\ DOMAIN va2aa' \subseteq DOMAIN prog'.code
    BY <1>4, <1>5 DEF Body
  <2>4. vm' \in Nat /\ arch' \in Nat /\ next' \in Nat /\ phase' \in Phase
    <3> HIDE DEF i, d, len, b, jp
    <3> QED
      BY <1>1, <1>2, <1>3, <1>4 DEF Phase
  <2> QED
    BY <1>1, <1>4, <1>9, <2>1, <2>2, <2>3, <2>4 DEF JitTypeOK
<1>11. Progress' /\ PassOrder' /\ UndefinedOnlyDangling'
  BY <1>1, <1>2, <1>4, <1>5 DEF Progress, PassOrder, UndefinedOnlyDangling, Body, SYS_ENTER_ADDR
<1>12. LinkedOrPending'
  <2> SUFFICES ASSUME NEW a \in DOMAIN block', prog.code[a].op \in BranchOp
               PROVE  IsLinked(a)' \/ Pending(a)'
    BY <1>4 DEF LinkedOrPending
  <2>1. CASE a = vm /\ d
    BY <1>4, <1>9, <2>1 DEF Pending
  <2>2. CASE a = vm /\ ~d
    BY <1>4, <1>6, <2>2 DEF IsLinked, Defers, Goes, as_arch_addr
  <2>3. CASE a # vm
    <3>1. a \in DOMAIN block /\ (IsLinked(a) \/ Pending(a))
      BY <1>4, <2>3 DEF LinkedOrPending
    <3>2. IsLinked(a) => IsLinked(a)'
      BY <1>4, <1>5, <1>6, <3>1 DEF IsLinked
    <3>3. Pending(a) => Pending(a)'
      BY <1>4, <1>9 DEF Pending
    <3> QED
      BY <3>1, <3>2, <3>3
  <2> QED
    BY <2>1, <2>2, <2>3
<1>13. DeferredOK'
  <2> SUFFICES ASSUME NEW k \in DOMAIN deferred'
               PROVE  /\ deferred'[k].vm \in DOMAIN block'
                      /\ prog.code[deferred'[k].vm].op \in BranchOp
                      /\ deferred'[k].arch = block'[deferred'[k].vm].at
    BY <1>4 DEF DeferredOK
  <2>1. CASE k \in DOMAIN deferred
    <3>1. deferred[k].vm \in DOMAIN block
      BY <2>1 DEF DeferredOK
    <3> QED
      BY <1>4, <1>6, <1>9, <2>1, <3>1 DEF DeferredOK
  <2>2. CASE d /\ deferred'[k] = jp
    BY <1>5, <1>6, <2>2 DEF Defers
  <2> QED
    BY <1>9, <2>1, <2>2
<1>14. EndToEnd'
  <2> SUFFICES ASSUME NEW a \in DOMAIN block'
               PROVE  LET end == block'[a].at + block'[a].len
                          c   == a + InstrLen(prog.code[a])
                      IN  /\ block'[a].at = va2aa'[a]
                          /\ Size(prog.code[a]) <= block'[a].len
                          /\ IF c \in DOMAIN block' THEN block'[c].at = end
                                                    ELSE c = vm' /\ end = arch'
    <3>1. arch' \in Nat /\ phase' # "done" /\ prog' = prog
      BY <1>1, <1>4, <1>10 DEF JitTypeOK
    <3> HIDE DEF i, d, len, b, jp
    <3> QED
      BY <3>1 DEF EndToEnd
  <2>1. CASE a = vm
    <3>1. vm + InstrLen(i) \notin DOMAIN block'
      BY <1>2, <1>4, <1>5, <1>1
    <3> QED
      BY <1>3, <1>4, <1>6, <2>1, <3>1
  <2>2. CASE a # vm
    <3> DEFINE c == a + InstrLen(prog.code[a])
    <3>1. /\ a \in DOMAIN block /\ a \in DOMAIN va2aa
          /\ block[a].at = va2aa[a] /\ Size(prog.code[a]) <= block[a].len
          /\ IF c \in DOMAIN block THEN block[c].at = block[a].at + block[a].len
                                   ELSE c = vm /\ block[a].at + block[a].len = arch
      BY <1>1, <1>4, <2>2 DEF EndToEnd, Body
    <3>2. CASE c \in DOMAIN block
      BY <1>4, <1>6, <3>1, <3>2
    <3>3. CASE c \notin DOMAIN block
      BY <1>5, <1>6, <3>1, <3>3
    <3> QED
      BY <3>2, <3>3
  <2> QED
    BY <2>1, <2>2
<1>15. CodeBound'
  <2>1. Expansion * (vm + InstrLen(i)) = Expansion * vm + Expansion * InstrLen(i)
    BY <1>1, <1>2, LayoutAssumption, SMTT(30)
  <2>2. /\ Expansion * vm \in Nat /\ Expansion * InstrLen(i) \in Nat
        /\ Expansion * (vm + InstrLen(i)) \in Nat
    BY <1>1, <1>2, LayoutAssumption, SMTT(30)
  <2>3. arch <= Prologue + Expansion * vm
    BY <1>1, <2>2, LayoutAssumption DEF CodeBound
  <2> HIDE DEF i, d, len, b, jp
  <2>4. arch' <= Prologue + Expansion * vm'
    BY <1>1, <1>3, <1>4, <2>1, <2>2, <2>3, LayoutAssumption
  <2>5. phase' # "done" /\ Expansion * vm' \in Nat
    BY <1>1, <1>4, <2>2
  <2> QED
    BY <2>4, <2>5, LayoutAssumption DEF CodeBound
<1> QED
  BY <1>10, <1>11, <1>12, <1>13, <1>14, <1>15

LEMMA EndProgramStep == JitInv /\ end_program => JitInv'
<1> SUFFICES ASSUME JitInv, end_program PROVE JitInv'
  OBVIOUS
<1> USE DEF JitInv
<1>1. /\ UNCHANGED <<prog, vm, arch, va2aa, deferred, next, block>>
      /\ phase = "program" /\ phase' = "deferred"
  BY DEF end_program
<1>2. vm = prog.size
  <2>1. prog \in Programs /\ vm >= prog.size /\ vm \in DOMAIN prog.code \cup {prog.size}
    BY <1>1 DEF end_program, JitTypeOK, Progress
  <2> QED
    BY <2>1, ProgramStep
<1>3. JitTypeOK' /\ Progress' /\ DeferredOK'
  BY <1>1 DEF JitTypeOK, Progress, DeferredOK, Phase, Body
<1>4. LinkedOrPending'
  BY <1>1 DEF LinkedOrPending, IsLinked, Pending
<1>5. PassOrder' /\ UndefinedOnlyDangling'
  BY <1>1, <1>2 DEF PassOrder, UndefinedOnlyDangling
<1>6. EndToEnd' /\ CodeBound'
  BY <1>1 DEF EndToEnd, CodeBound
<1> QED
  BY <1>3, <1>4, <1>5, <1>6

LEMMA GuardStep == JitInv /\ emit_guard => JitInv'
<1> SUFFICES ASSUME JitInv, emit_guard PROVE JitInv'
  OBVIOUS
<1> USE DEF JitInv
<1>1. /\ UNCHANGED <<prog, vm, va2aa, deferred, next, block>>
      /\ phase = "deferred" /\ phase' = "done" /\ next > Len(deferred)
      /\ arch' = arch + Guard /\ arch \in Nat /\ Guard \in Nat /\ vm \in Nat
      /\ prog \in Programs
  BY LayoutAssumption DEF emit_guard, JitTypeOK
<1>2. JitTypeOK' /\ Progress' /\ DeferredOK'
  BY <1>1 DEF JitTypeOK, Progress, DeferredOK, Phase, Body
<1>3. LinkedOrPending'
  BY <1>1 DEF LinkedOrPending, IsLinked, Pending
<1>4. PassOrder' /\ UndefinedOnlyDangling'
  BY <1>1 DEF PassOrder, UndefinedOnlyDangling
<1>5. EndToEnd'
  BY <1>1 DEF EndToEnd
<1>6. CodeBound'
  <2>1. Expansion * vm \in Nat
    BY <1>1, LayoutAssumption, SMTT(30)
  <2> QED
    BY <1>1, <2>1, LayoutAssumption DEF CodeBound
<1> QED
  BY <1>2, <1>3, <1>4, <1>5, <1>6

\* The position that jit_deferred is at leaves the pending ones, and no other.
LEMMA DeferredStep == JitInv /\ jit_deferred => JitInv'
<1> SUFFICES ASSUME JitInv, jit_deferred PROVE JitInv'
  OBVIOUS
<1> USE DEF JitInv
<1> DEFINE jp == deferred[next]
           i  == prog.code[jp.vm]
<1>1. /\ UNCHANGED <<prog, vm, arch, va2aa, deferred>>
      /\ phase = "deferred" /\ vm = prog.size /\ prog \in Programs
      /\ next \in DOMAIN deferred
  <2>1. next \in Nat /\ next >= 1 /\ next <= Len(deferred)
    BY DEF jit_deferred, JitTypeOK, PassOrder
  <2>2. deferred \in Seq([arch : Nat, vm : Nat])
    BY DEF JitTypeOK
  <2>3. next \in DOMAIN deferred
    BY <2>1, <2>2
  <2> QED
    BY <2>3 DEF jit_deferred, JitTypeOK, PassOrder
<1>2. /\ jp.vm \in DOMAIN block /\ i.op \in BranchOp
      /\ jp.arch = block[jp.vm].at /\ jp.arch \in Nat
      /\ jp.vm \in Body
  BY <1>1 DEF DeferredOK, JitTypeOK
<1>3. DOMAIN va2aa = DOMAIN prog.code
  <2>1. phase # "start" /\ DOMAIN va2aa = {a \in DOMAIN prog.code : a < prog.size}
    BY <1>1 DEF Progress
  <2> QED
    BY <1>1, <2>1, ProgramStep
<1>4. CASE Defers(i, va2aa)
  <2>1. phase' = "undefined" /\ UNCHANGED <<next, block>>
    BY <1>4 DEF jit_deferred
  <2>2. JitTypeOK' /\ Progress' /\ DeferredOK'
    BY <1>1, <2>1 DEF JitTypeOK, Progress, DeferredOK, Phase, Body
  <2>3. LinkedOrPending' /\ PassOrder'
    BY <1>1, <2>1 DEF LinkedOrPending, IsLinked, Pending, PassOrder
  <2>4. EndToEnd' /\ CodeBound'
    BY <1>1, <2>1 DEF EndToEnd, CodeBound
  <2>5. UndefinedOnlyDangling'
    <3>1. jp.vm \in Transfer /\ i.tgt \notin DOMAIN prog.code
      BY <1>2, <1>3, <1>4 DEF Transfer, Defers
    <3> QED
      BY <1>1, <3>1 DEF UndefinedOnlyDangling, Transfer, Body
  <2> QED
    BY <2>2, <2>3, <2>4, <2>5
<1>5. CASE ~Defers(i, va2aa)
  <2>1. /\ block' = [block EXCEPT ![jp.vm].at = jp.arch, ![jp.vm].to = Goes(i, va2aa)]
        /\ next' = next + 1 /\ phase' = phase
    BY <1>5 DEF jit_deferred
  <2>2. Goes(i, va2aa) = va2aa[i.tgt] /\ i.tgt \in DOMAIN va2aa /\ va2aa[i.tgt] \in Nat
    BY <1>2, <1>5 DEF Defers, Goes, as_arch_addr, JitTypeOK
  <2>3. /\ DOMAIN block' = DOMAIN block
        /\ \A a \in DOMAIN block : a # jp.vm => block'[a] = block[a]
        /\ block'[jp.vm] = [at |-> block[jp.vm].at, len |-> block[jp.vm].len,
                            to |-> va2aa[i.tgt]]
    <3>1. block[jp.vm] \in [at : Nat, len : Nat, to : Nat \cup {Unmapped}]
      BY <1>2 DEF JitTypeOK
    <3> HIDE DEF jp, i
    <3> QED
      BY <1>2, <2>1, <2>2, <3>1
  <2>4. \A a \in DOMAIN block : block'[a].at = block[a].at /\ block'[a].len = block[a].len
    BY <2>3
  <2>5. JitTypeOK'
    <3> HIDE DEF jp, i
    <3>1. ASSUME NEW a \in DOMAIN block
          PROVE  block'[a] \in [at : Nat, len : Nat, to : Nat \cup {Unmapped}]
      <4>1. block[a] \in [at : Nat, len : Nat, to : Nat \cup {Unmapped}]
        BY DEF JitTypeOK
      <4>2. block[jp.vm] \in [at : Nat, len : Nat, to : Nat \cup {Unmapped}]
        BY <1>2 DEF JitTypeOK
      <4> QED
        BY <2>2, <2>3, <4>1, <4>2
    <3>2. \A a \in DOMAIN block' :
             block'[a] \in [at : Nat, len : Nat, to : Nat \cup {Unmapped}]
      BY <2>3, <3>1, Zenon
    <3>3. next' \in Nat /\ Body' = Body
      BY <1>1, <2>1 DEF JitTypeOK, Body
    <3> QED
      BY <1>1, <2>1, <2>3, <3>2, <3>3, Zenon DEF JitTypeOK
  <2>6. Progress' /\ PassOrder' /\ UndefinedOnlyDangling'
    <3>1. next \in Nat
      BY DEF JitTypeOK
    <3> QED
      BY <1>1, <2>1, <2>3, <3>1 DEF Progress, PassOrder, UndefinedOnlyDangling, Body
  <2>7. LinkedOrPending'
    <3> SUFFICES ASSUME NEW a \in DOMAIN block, prog.code[a].op \in BranchOp
                 PROVE  IsLinked(a)' \/ Pending(a)'
      BY <1>1, <2>3 DEF LinkedOrPending
    <3>1. CASE a = jp.vm
      BY <1>1, <2>2, <2>3, <3>1 DEF IsLinked
    <3>2. CASE a # jp.vm
      <4>1. IsLinked(a) => IsLinked(a)'
        BY <1>1, <2>3, <3>2 DEF IsLinked
      <4>2. ASSUME Pending(a) PROVE Pending(a)'
        <5>1. PICK k \in DOMAIN deferred : k >= next /\ deferred[k].vm = a
          BY <4>2 DEF Pending
        <5>2. k # next /\ k \in Nat /\ next \in Nat
          BY SMTT(30), <1>1, <3>2, <5>1 DEF JitTypeOK
        <5>3. k >= next + 1
          BY <5>1, <5>2
        <5> QED
          BY <1>1, <2>1, <5>1, <5>3 DEF Pending
      <4> QED
        BY <4>1, <4>2 DEF LinkedOrPending
    <3> QED
      BY <3>1, <3>2
  <2>8. DeferredOK'
    BY <1>1, <2>3, <2>4 DEF DeferredOK
  <2>9. EndToEnd'
    BY <1>1, <2>1, <2>3, <2>4 DEF EndToEnd
  <2>10. CodeBound'
    BY <1>1, <2>1 DEF CodeBound
  <2> QED
    BY <2>5, <2>6, <2>7, <2>8, <2>9, <2>10
<1> QED
  BY <1>4, <1>5

LEMMA JitInvStep == JitInv /\ [JitNext]_jitVars => JitInv'
<1> SUFFICES ASSUME JitInv, [JitNext]_jitVars PROVE JitInv'
  OBVIOUS
<1>1. CASE JitNext
  BY <1>1, PrologueStep, InstructionStep, EndProgramStep, DeferredStep, GuardStep DEF JitNext
<1>2. CASE UNCHANGED jitVars
  BY <1>2 DEF jitVars, JitInv, JitTypeOK, Progress, PassOrder, LinkedOrPending, IsLinked,
              Pending, DeferredOK, EndToEnd, CodeBound, UndefinedOnlyDangling, Body, Transfer
<1> QED
  BY <1>1, <1>2
-----------------------------------------------------------------------------
LEMMA JitInvLinked == JitInv => Linked
<1> SUFFICES ASSUME JitInv, phase = "done"
             PROVE  /\ DOMAIN block = Body
                    /\ \A a \in Transfer : IsLinked(a)
  BY DEF Linked, IsLinked
<1> USE DEF JitInv
<1>1. prog \in Programs /\ vm = prog.size /\ next > Len(deferred) /\ next \in Nat
  BY DEF JitTypeOK, PassOrder
<1>2. DOMAIN block = Body
  BY <1>1, ProgramStep DEF Progress, Body
<1>3. \A a : ~Pending(a)
  <2>1. deferred \in Seq([arch : Nat, vm : Nat])
    BY DEF JitTypeOK
  <2>2. \A k \in DOMAIN deferred : ~(k >= next)
    BY <1>1, <2>1
  <2> QED
    BY <2>2 DEF Pending
<1> QED
  BY <1>2, <1>3 DEF LinkedOrPending, Transfer

LEMMA JitInvBound == JitInv => TextBound
<1> SUFFICES ASSUME JitInv PROVE TextBound
  OBVIOUS
<1> USE DEF JitInv
<1>1. prog \in Programs /\ vm \in Nat /\ arch \in Nat /\ prog.size \in Nat
  BY FirstStep, ProgramStep DEF JitTypeOK
<1>2. vm <= prog.size
  BY <1>1, FirstStep, ProgramStep DEF Progress, SYS_ENTER_ADDR
<1>3. Expansion * vm <= Expansion * prog.size
  <2> DEFINE k == prog.size - vm
  <2>1. k \in Nat /\ prog.size = vm + k
    BY <1>1, <1>2
  <2> HIDE DEF k
  <2>2. Expansion * (vm + k) = Expansion * vm + Expansion * k /\ Expansion * k \in Nat
        /\ Expansion * vm \in Nat
    BY <1>1, <2>1, LayoutAssumption, SMTT(30)
  <2> QED
    BY <2>1, <2>2
<1>4. Expansion * vm \in Nat /\ Expansion * prog.size \in Nat
  BY <1>1, LayoutAssumption, SMTT(30)
<1> QED
  BY <1>1, <1>3, <1>4, LayoutAssumption DEF CodeBound, TextBound
-----------------------------------------------------------------------------
\* Distances: between two mapped addresses, and from one to the end of the code.

NearPairs == \A a, b \in DOMAIN va2aa : a <= b => /\ va2aa[a] <= va2aa[b]
                                                 /\ va2aa[b] <= va2aa[a] + Span(a, b)

NearEnd == \A a \in DOMAIN va2aa : /\ va2aa[a] <= arch
                                   /\ phase # "done" => arch <= va2aa[a] + Span(a, vm)

Near == NearPairs /\ NearEnd

\* Spans are natural numbers and grow by the expansion of what is added.
LEMMA SpanGrows ==
  ASSUME NEW a \in Nat, NEW b \in Nat, NEW n \in Nat, a <= b
  PROVE  /\ Span(a, b) \in Nat
         /\ Expansion * n \in Nat
         /\ Span(a, b + n) = Span(a, b) + Expansion * n
<1> DEFINE k == b - a
<1>1. k \in Nat /\ (b + n) - a = k + n
  OBVIOUS
<1> HIDE DEF k
<1>2. /\ Expansion * k \in Nat /\ Expansion * n \in Nat
      /\ Expansion * (k + n) = Expansion * k + Expansion * n
  BY <1>1, LayoutAssumption, SMTT(30)
<1>3. Span(a, b) = Expansion * k + (IF a = SYS_ENTER_ADDR THEN Prologue ELSE 0)
  BY DEF Span, k
<1>4. Span(a, b + n) = Expansion * (k + n) + (IF a = SYS_ENTER_ADDR THEN Prologue ELSE 0)
  BY <1>1 DEF Span
<1> QED
  BY <1>2, <1>3, <1>4, LayoutAssumption

LEMMA NearInit == JitInit => Near
<1> SUFFICES ASSUME JitInit PROVE Near
  OBVIOUS
<1>1. DOMAIN va2aa = {}
  BY DEF JitInit
<1> QED
  BY <1>1 DEF Near, NearPairs, NearEnd

LEMMA NearPrologue == JitInv /\ emit_prologue => Near'
<1> SUFFICES ASSUME JitInv, emit_prologue PROVE Near'
  OBVIOUS
<1>1. /\ vm = SYS_ENTER_ADDR /\ vm' = 9 /\ arch' = Prologue /\ phase' = "program"
      /\ DOMAIN va2aa' = {SYS_ENTER_ADDR} /\ va2aa'[SYS_ENTER_ADDR] = StubAt
  BY DEF emit_prologue, JitInv, Progress, SYS_ENTER_ADDR
<1>2. Expansion * 0 = 0 /\ Expansion * 9 \in Nat
  BY LayoutAssumption
<1>3. Span(0, 0) = Prologue /\ Span(0, 9) = Expansion * 9 + Prologue
  BY <1>2, LayoutAssumption DEF Span, SYS_ENTER_ADDR
<1>4. NearPairs'
  BY <1>1, <1>3, LayoutAssumption DEF NearPairs, SYS_ENTER_ADDR, Span
<1>5. NearEnd'
  BY <1>1, <1>2, <1>3, LayoutAssumption DEF NearEnd, SYS_ENTER_ADDR, Span
<1> QED
  BY <1>4, <1>5 DEF Near

LEMMA NearInstruction == JitInv /\ Near /\ jit_vm_instruction => Near'
<1> SUFFICES ASSUME JitInv, Near, jit_vm_instruction PROVE Near'
  OBVIOUS
<1> DEFINE i == prog.code[vm]
           n == InstrLen(i)
           len == BlockLen(i, Defers(i, Recorded))
<1>1. /\ phase = "program" /\ vm < prog.size /\ va2aa' = Recorded /\ vm' = vm + n
      /\ arch' = arch + len /\ phase' = "program"
  BY DEF jit_vm_instruction
<1>2. /\ vm \in Nat /\ arch \in Nat /\ prog \in Programs /\ vm \in DOMAIN prog.code
      /\ vm > SYS_ENTER_ADDR /\ DOMAIN va2aa = {a \in DOMAIN prog.code : a < vm}
      /\ \A a \in DOMAIN va2aa : va2aa[a] \in Nat
  BY <1>1 DEF JitInv, JitTypeOK, Progress
<1>3. n \in Nat /\ Sized(i) /\ \A a \in DOMAIN va2aa : a \in Nat /\ a < vm
  BY <1>2, ProgramStep
<1>4. len \in Nat /\ len <= Expansion * n /\ Expansion * n \in Nat
  BY <1>3, LayoutAssumption, SpanGrows DEF Sized, BlockLen, Defers
<1>5. /\ DOMAIN va2aa' = DOMAIN va2aa \cup {vm} /\ va2aa'[vm] = arch
      /\ \A a \in DOMAIN va2aa : va2aa'[a] = va2aa[a]
  BY <1>1, <1>2 DEF Recorded
<1> HIDE DEF n, len, i
<1>6. Span(vm, vm) = 0 /\ Span(vm, vm + n) = Expansion * n
  <2>1. Expansion * 0 = 0
    BY LayoutAssumption
  <2> QED
    BY <1>2, <1>3, <1>4, <2>1, SpanGrows, LayoutAssumption DEF Span, SYS_ENTER_ADDR
<1>7. \A a \in DOMAIN va2aa : /\ Span(a, vm) \in Nat
                              /\ Span(a, vm + n) = Span(a, vm) + Expansion * n
  <2> TAKE a \in DOMAIN va2aa
  <2>1. a \in Nat /\ a <= vm
    BY <1>2, <1>3
  <2> QED
    BY <1>2, <1>3, <2>1, SpanGrows
<1>8. NearPairs'
  <2> SUFFICES ASSUME NEW a \in DOMAIN va2aa', NEW b \in DOMAIN va2aa', a <= b
               PROVE  va2aa'[a] <= va2aa'[b] /\ va2aa'[b] <= va2aa'[a] + Span(a, b)
    BY DEF NearPairs, Span
  <2>1. CASE b \in DOMAIN va2aa
    <3>1. a \in DOMAIN va2aa
      BY <1>2, <1>3, <1>5, <2>1
    <3> QED
      BY <1>5, <2>1, <3>1 DEF Near, NearPairs
  <2>2. CASE b = vm /\ a = vm
    BY <1>2, <1>5, <1>6, <2>2
  <2>3. CASE b = vm /\ a \in DOMAIN va2aa
    BY <1>1, <1>5, <2>3 DEF Near, NearEnd
  <2> QED
    BY <1>5, <2>1, <2>2, <2>3
<1>9. NearEnd'
  <2> SUFFICES ASSUME NEW a \in DOMAIN va2aa'
               PROVE  va2aa'[a] <= arch' /\ arch' <= va2aa'[a] + Span(a, vm')
    BY DEF NearEnd, Span
  <2>1. CASE a = vm
    BY <1>1, <1>2, <1>4, <1>5, <1>6, <2>1
  <2>2. CASE a \in DOMAIN va2aa
    <3>1. va2aa[a] <= arch /\ arch <= va2aa[a] + Span(a, vm) /\ va2aa[a] \in Nat
      BY <1>1, <1>2, <2>2 DEF Near, NearEnd
    <3> QED
      BY <1>1, <1>2, <1>4, <1>5, <1>7, <2>2, <3>1
  <2> QED
    BY <1>5, <2>1, <2>2
<1> QED
  BY <1>8, <1>9 DEF Near

LEMMA NearStep == JitInv /\ Near /\ [JitNext]_jitVars => Near'
<1> SUFFICES ASSUME JitInv, Near, [JitNext]_jitVars PROVE Near'
  OBVIOUS
<1>1. CASE emit_prologue
  BY <1>1, NearPrologue
<1>2. CASE jit_vm_instruction
  BY <1>2, NearInstruction
<1>3. CASE end_program \/ jit_deferred \/ UNCHANGED jitVars
  <2>1. UNCHANGED <<vm, arch, va2aa>> /\ (phase # "done" \/ phase' = phase)
    BY <1>3 DEF end_program, jit_deferred, jitVars
  <2> QED
    BY <2>1 DEF Near, NearPairs, NearEnd, Span
<1>4. CASE emit_guard
  <2>1. UNCHANGED va2aa /\ phase' = "done" /\ arch' = arch + Guard
    BY <1>4 DEF emit_guard
  <2>2. arch \in Nat /\ \A a \in DOMAIN va2aa : va2aa[a] \in Nat
    BY DEF JitInv, JitTypeOK
  <2> QED
    BY <2>1, <2>2, LayoutAssumption DEF Near, NearPairs, NearEnd, Span
<1> QED
  BY <1>1, <1>2, <1>3, <1>4 DEF JitNext

LEMMA NearReach == JitInv /\ Near => Reach
<1> SUFFICES ASSUME JitInv, Near, phase = "done", NEW a \in Transfer
             PROVE  LET b == prog.code[a].tgt
                        d == block[a].to - block[a].at
                    IN  IF a <= b THEN d \in 0 .. Span(a, b) ELSE -d \in 0 .. Span(b, a)
  BY DEF Reach
<1> DEFINE b == prog.code[a].tgt
<1>1. DOMAIN block = Body /\ b \in DOMAIN va2aa /\ block[a].to = va2aa[b]
  BY JitInvLinked DEF Linked
<1>2. a \in Body /\ a \in DOMAIN prog.code
  BY DEF Transfer, Body
<1>3. block[a].at = va2aa[a]
  BY <1>1, <1>2 DEF JitInv, EndToEnd
<1>4. /\ prog \in Programs /\ DOMAIN va2aa = {c \in DOMAIN prog.code : c < vm}
      /\ \A c \in DOMAIN va2aa : va2aa[c] \in Nat
      /\ DOMAIN block = {c \in Body : c < vm}
  BY DEF JitInv, JitTypeOK, Progress
<1>5. a \in DOMAIN va2aa /\ a \in Nat /\ b \in Nat
  BY <1>1, <1>2, <1>4, ProgramStep
<1> HIDE DEF b
<1>6. CASE a <= b
  <2>1. va2aa[a] <= va2aa[b] /\ va2aa[b] <= va2aa[a] + Span(a, b) /\ Span(a, b) \in Nat
    BY <1>1, <1>5, <1>6, SpanGrows DEF Near, NearPairs
  <2>2. block[a].to - block[a].at \in 0 .. Span(a, b)
    BY <1>1, <1>3, <1>4, <1>5, <2>1
  <2> QED
    BY <1>6, <2>2 DEF b
<1>7. CASE ~(a <= b)
  <2>0. b <= a
    BY <1>5, <1>7
  <2>1. va2aa[b] <= va2aa[a] /\ va2aa[a] <= va2aa[b] + Span(b, a) /\ Span(b, a) \in Nat
    BY <1>1, <1>5, <2>0, SpanGrows DEF Near, NearPairs
  <2> DEFINE x == va2aa[a]
             y == va2aa[b]
  <2>2. x \in Nat /\ y \in Nat /\ block[a].at = x /\ block[a].to = y
    BY <1>1, <1>3, <1>4, <1>5
  <2>3. y <= x /\ x <= y + Span(b, a)
    BY <2>1
  <2> HIDE DEF x, y
  <2>4. -(y - x) \in 0 .. Span(b, a)
    BY <2>1, <2>2, <2>3
  <2>5. -(block[a].to - block[a].at) \in 0 .. Span(b, a)
    BY <2>2, <2>4
  <2> QED
    BY <1>7, <2>5 DEF b
<1> QED
  BY <1>6, <1>7
-----------------------------------------------------------------------------
\* Every variable of the translator has its type.
THEOREM JitTypeCorrect == JitSpec => []JitTypeOK
<1>1. JitInv => JitTypeOK
  BY DEF JitInv
<1> QED
  BY <1>1, JitInvInit, JitInvStep, PTL DEF JitSpec

\* The blocks of native code lie end to end in the order of the program, and a
\* transfer that jit_deferred writes stays within the slots reserved for it.
THEOREM Layout == JitSpec => []EndToEnd
<1>1. JitInv => EndToEnd
  BY DEF JitInv
<1> QED
  BY <1>1, JitInvInit, JitInvStep, PTL DEF JitSpec

\* When jit returns, every transfer of the program goes to its target's code.
THEOREM Linking == JitSpec => []Linked
<1> QED
  BY JitInvLinked, JitInvInit, JitInvStep, PTL DEF JitSpec

\* jit_deferred only appends to the vector that it iterates over when the
\* program has a transfer to an address where it has no instruction.
THEOREM DanglingOnly == JitSpec => []UndefinedOnlyDangling
<1>1. JitInv => UndefinedOnlyDangling
  BY DEF JitInv
<1> QED
  BY <1>1, JitInvInit, JitInvStep, PTL DEF JitSpec

\* The native code fits in a multiple of the program and a fixed part.
THEOREM TextFits == JitSpec => []TextBound
<1> QED
  BY JitInvBound, JitInvInit, JitInvStep, PTL DEF JitSpec

\* The distance that a transfer goes in the native code is bounded by its distance in
\* the program: how near a conditional jump's target must be for a branch of limited
\* reach.
THEOREM Reaches == JitSpec => []Reach
<1>1. JitInit => JitInv /\ Near
  BY JitInvInit, NearInit
<1>2. (JitInv /\ Near) /\ [JitNext]_jitVars => (JitInv /\ Near)'
  BY JitInvStep, NearStep
<1> QED
  BY <1>1, <1>2, NearReach, PTL DEF JitSpec
=============================================================================
