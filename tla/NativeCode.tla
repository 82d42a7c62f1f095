----------------------------- MODULE NativeCode -----------------------------
(***************************************************************************)
(* Native code as data: a sequence of instructions, of which len is the     *)
(* length in bytes, and a text that it is written into, which has at each   *)
(* offset the instruction that starts there.                                *)
(***************************************************************************)
EXTENDS Integers, Sequences

\* The offset of each of ops, and one past the last, when they start at at.
Starts(ops, at) ==
  LET s[k \in 1 .. Len(ops) + 1] == IF k = 1 THEN at ELSE s[k - 1] + ops[k - 1].len
  IN  s

Bytes(ops) == Starts(ops, 0)[Len(ops) + 1]

\* The code that one emit function writes for each of rs.
Joined(codes) ==
  LET j[k \in 0 .. Len(codes)] == IF k = 0 THEN <<>> ELSE j[k - 1] \o codes[k]
  IN  j[Len(codes)]

Each(emit(_), rs) == Joined([k \in DOMAIN rs |-> emit(rs[k])])

\* The code t with ops written over it from offset at on.
Patched(t, ops, at) ==
  LET s    == Starts(ops, at)
      new  == {s[k] : k \in DOMAIN ops}
      kept == DOMAIN t \ (at .. at + Bytes(ops) - 1)
  IN  [x \in new \cup kept |-> IF x \in new THEN ops[CHOOSE k \in DOMAIN ops : s[k] = x] ELSE t[x]]

\* The processor that comes to the offset at of the text t finds ops.
Placed(t, ops, at) ==
  \A k \in DOMAIN ops : LET x == Starts(ops, at)[k] IN x \in DOMAIN t /\ t[x] = ops[k]
=============================================================================
