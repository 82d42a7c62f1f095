---------------------------- MODULE NativeProofs ----------------------------
(***************************************************************************)
(* What the translator of module Jit is to a back end that writes code: the  *)
(* theorems of module JitProofs hold of it, and the code of every            *)
(* instruction stands where the processor comes to look for it.              *)
(***************************************************************************)
EXTENDS Native, JitProofs, Recursion

\* A step that writes code is a step of the translator.
LEMMA TranslateSteps == Translate => JitNext
  BY DEF Translate, write_prologue, write_instruction, write_end, write_deferred, write_guard,
         JitNext

\* What holds of the translator at every moment.
LEMMA TranslatorSafe == JitSpec => [](EndToEnd /\ Linked /\ TextBound)
  BY Layout, Linking, TextFits, PTL
-----------------------------------------------------------------------------
\* Sequences of instructions.

\* Instructions that have a length.
Ops(S) == \A o \in S : o.len \in Nat /\ o.len > 0

\* s has at and its sums with the first terms of len.
Adds(s, n, at, len) ==
  s = [k \in 1 .. n + 1 |-> IF k = 1 THEN at ELSE s[k - 1] + len[k - 1]]

\* Such sums exist.
LEMMA Sums ==
  ASSUME NEW n \in Nat, NEW at \in Nat, NEW len \in [1 .. n -> Nat]
  PROVE  \E s \in [1 .. n + 1 -> Nat] : Adds(s, n, at, len)
<1> DEFINE step == [x \in Nat \X Nat |-> IF x[1] + 1 \in 1 .. n THEN x[2] + len[x[1] + 1]
                                                                ELSE x[2]]
<1>1. \A m, v \in Nat : step[<<m, v>>] = IF m + 1 \in 1 .. n THEN v + len[m + 1] ELSE v
  OBVIOUS
<1> HIDE DEF step
<1>2. \A m, v \in Nat : step[<<m, v>>] \in Nat
  <2> TAKE m, v \in Nat
  <2>1. m + 1 \in 1 .. n => len[m + 1] \in Nat
    OBVIOUS
  <2> QED
    BY <1>1, <2>1
<1>3. PICK f \in [Nat -> Nat] : f[0] = at /\ \A m \in Nat : f[m + 1] = step[<<m, f[m]>>]
  <2>1. \E f \in [Nat -> Nat] : Recurs(f, at, step)
    BY <1>2, RecursionExists
  <2> QED
    BY <2>1 DEF Recurs
<1> DEFINE s == [k \in 1 .. n + 1 |-> f[k - 1]]
<1>4. ASSUME NEW k \in 1 .. n + 1 PROVE s[k] = IF k = 1 THEN at ELSE s[k - 1] + len[k - 1]
  <2>1. CASE k = 1
    BY <2>1, <1>3
  <2>2. CASE k # 1
    <3>1. k - 2 \in Nat /\ k - 1 \in 1 .. n /\ (k - 2) + 1 = k - 1 /\ f[k - 2] \in Nat
      BY <2>2
    <3>2. f[k - 1] = step[<<k - 2, f[k - 2]>>]
      BY <3>1, <1>3
    <3>3. f[k - 1] = f[k - 2] + len[k - 1]
      BY <3>1, <3>2, <1>1
    <3>4. s[k] = f[k - 1] /\ s[k - 1] = f[k - 2]
      BY <3>1
    <3> HIDE DEF s
    <3> QED
      BY <3>3, <3>4, <2>2
  <2> QED
    BY <2>1, <2>2
<1>5. s = [k \in 1 .. n + 1 |-> s[k]] /\ s \in [1 .. n + 1 -> Nat]
  OBVIOUS
<1> HIDE DEF s
<1>6. Adds(s, n, at, len)
  BY <1>4, <1>5 DEF Adds
<1> QED
  BY <1>5, <1>6

\* The recursion of Starts.
LEMMA StartsRec ==
  ASSUME NEW S, Ops(S), NEW ops \in Seq(S), NEW at \in Nat
  PROVE  /\ Starts(ops, at) \in [1 .. Len(ops) + 1 -> Nat]
         /\ Starts(ops, at)[1] = at
         /\ \A k \in 1 .. Len(ops) : Starts(ops, at)[k + 1] = Starts(ops, at)[k] + ops[k].len
<1> DEFINE n    == Len(ops)
           len  == [k \in 1 .. n |-> ops[k].len]
           P(s) == s = [k \in 1 .. n + 1 |-> IF k = 1 THEN at ELSE s[k - 1] + ops[k - 1].len]
           t    == Starts(ops, at)
<1>1. n \in Nat /\ len \in [1 .. n -> Nat]
  BY DEF Ops
<1>2. PICK s \in [1 .. n + 1 -> Nat] : Adds(s, n, at, len)
  <2> HIDE DEF n, len
  <2> QED
    BY <1>1, Sums
<1>3. P(s)
  <2>1. \A k \in 1 .. n + 1 : k # 1 => len[k - 1] = ops[k - 1].len
    BY <1>1
  <2> HIDE DEF len, n
  <2> QED
    BY <1>2, <2>1 DEF Adds
<1>4. P(t)
  <2>1. t = CHOOSE u : P(u)
    BY Zenon DEF Starts
  <2> HIDE DEF P
  <2> QED
    BY <1>3, <2>1
<1> HIDE DEF t
<1>5. t[1] = at /\ t = [k \in 1 .. n + 1 |-> t[k]]
  BY <1>1, <1>4
<1>6. ASSUME NEW k \in 1 .. n PROVE t[k + 1] = t[k] + len[k]
  <2>1. k + 1 \in 1 .. n + 1 /\ k + 1 # 1 /\ (k + 1) - 1 = k
    BY <1>1
  <2> HIDE DEF n
  <2> QED
    BY <2>1, <1>4
<1>7. \A k \in 1 .. n + 1 : t[k] \in Nat
  <2> DEFINE T == {k \in 1 .. n + 1 : t[k] \in Nat}
  <2> HIDE DEF n, len
  <2>1. 1 \in T
    BY <1>1, <1>5
  <2>2. \A k \in 1 .. n : k \in T => k + 1 \in T
    BY SMTT(30), <1>1, <1>6
  <2> HIDE DEF T
  <2>3. 1 .. n + 1 \subseteq T
    BY <1>1, <2>1, <2>2, IndexInduction
  <2> QED
    BY <2>3 DEF T
<1>8. t \in [1 .. n + 1 -> Nat]
  <2> HIDE DEF n
  <2> QED
    BY <1>5, <1>7
<1>9. \A k \in 1 .. n : t[k + 1] = t[k] + ops[k].len
  BY <1>6
<1> QED
  BY <1>5, <1>8, <1>9 DEF t

\* The instructions lie one after the other, from at to at + Bytes(ops).
LEMMA StartsOrder ==
  ASSUME NEW S, Ops(S), NEW ops \in Seq(S), NEW at \in Nat
  PROVE  \A i, j \in 1 .. Len(ops) + 1 :
            i < j => Starts(ops, at)[i] + ops[i].len <= Starts(ops, at)[j]
<1> DEFINE n == Len(ops)
           s == Starts(ops, at)
<1>1. /\ n \in Nat /\ s \in [1 .. n + 1 -> Nat]
      /\ \A k \in 1 .. n : s[k + 1] = s[k] + ops[k].len
      /\ \A k \in 1 .. n : ops[k].len \in Nat
  BY StartsRec DEF Ops
<1> HIDE DEF n, s
<1> SUFFICES ASSUME NEW i \in 1 .. n + 1
             PROVE  \A j \in 1 .. n + 1 : i < j => s[i] + ops[i].len <= s[j]
  BY DEF n, s
<1> DEFINE T == {j \in 1 .. n + 1 : i < j => s[i] + ops[i].len <= s[j]}
<1>2. 1 \in T
  BY <1>1
<1>3. ASSUME NEW j \in 1 .. n, j \in T PROVE j + 1 \in T
  <2>1. j + 1 \in 1 .. n + 1 /\ s[j + 1] = s[j] + ops[j].len /\ s[j] \in Nat /\ ops[j].len \in Nat
    BY <1>1
  <2>2. CASE i < j
    <3>1. s[i] + ops[i].len <= s[j] /\ s[i] \in Nat /\ i \in 1 .. n /\ ops[i].len \in Nat
      BY <1>1, <1>3, <2>2
    <3> QED
      BY <2>1, <3>1
  <2>3. CASE i = j
    BY <2>1, <2>3
  <2>4. CASE i > j
    BY <2>1, <2>4, <1>1
  <2> QED
    BY <2>2, <2>3, <2>4, <1>1
<1> HIDE DEF T
<1>4. 1 .. n + 1 \subseteq T
  BY <1>1, <1>2, <1>3, IndexInduction
<1> QED
  BY <1>4 DEF T

\* Moving the code moves all of it.
LEMMA StartsShift ==
  ASSUME NEW S, Ops(S), NEW ops \in Seq(S), NEW at \in Nat
  PROVE  \A k \in 1 .. Len(ops) + 1 : Starts(ops, at)[k] = at + Starts(ops, 0)[k]
<1> DEFINE n == Len(ops)
           s == Starts(ops, at)
           z == Starts(ops, 0)
<1>1. /\ n \in Nat /\ s \in [1 .. n + 1 -> Nat] /\ z \in [1 .. n + 1 -> Nat]
      /\ s[1] = at /\ z[1] = 0
      /\ \A k \in 1 .. n : s[k + 1] = s[k] + ops[k].len /\ z[k + 1] = z[k] + ops[k].len
      /\ \A k \in 1 .. n : ops[k].len \in Nat
  <2>1. n \in Nat /\ \A k \in 1 .. n : ops[k].len \in Nat
    BY DEF Ops
  <2>2. s \in [1 .. n + 1 -> Nat] /\ s[1] = at /\ \A k \in 1 .. n : s[k + 1] = s[k] + ops[k].len
    BY StartsRec
  <2>3. z \in [1 .. n + 1 -> Nat] /\ z[1] = 0 /\ \A k \in 1 .. n : z[k + 1] = z[k] + ops[k].len
    BY StartsRec
  <2> QED
    BY <2>1, <2>2, <2>3
<1> HIDE DEF n, s, z
<1> DEFINE T == {k \in 1 .. n + 1 : s[k] = at + z[k]}
<1>2. 1 \in T
  BY <1>1
<1>3. ASSUME NEW k \in 1 .. n, k \in T PROVE k + 1 \in T
  <2>1. s[k + 1] = s[k] + ops[k].len /\ z[k + 1] = z[k] + ops[k].len /\ s[k] = at + z[k]
    BY <1>1, <1>3
  <2> HIDE DEF T
  <2>0. n \in Nat /\ ops[k].len \in Nat
    BY <1>1
  <2>2. k \in 1 .. n + 1 /\ k + 1 \in 1 .. n + 1 /\ ops[k].len \in Nat
    BY <2>0
  <2>3. s[k] \in Nat /\ z[k] \in Nat
    BY <1>1, <2>2
  <2>4. s[k + 1] = at + z[k + 1]
    BY <2>1, <2>2, <2>3
  <2> QED
    BY <2>2, <2>4 DEF T
<1> HIDE DEF T
<1>4. 1 .. n + 1 \subseteq T
  BY <1>1, <1>2, <1>3, IndexInduction
<1> QED
  BY <1>4 DEF T, n, s, z

\* What follows of an instruction's place.
LEMMA StartsWithin ==
  ASSUME NEW S, Ops(S), NEW ops \in Seq(S), NEW at \in Nat
  PROVE  /\ Bytes(ops) \in Nat
         /\ Starts(ops, at)[Len(ops) + 1] = at + Bytes(ops)
         /\ \A k \in DOMAIN ops : /\ Starts(ops, at)[k] \in Nat
                                  /\ at <= Starts(ops, at)[k]
                                  /\ Starts(ops, at)[k] + ops[k].len <= at + Bytes(ops)
                                  /\ Starts(ops, at)[k] < at + Bytes(ops)
         /\ \A i, j \in DOMAIN ops : Starts(ops, at)[i] = Starts(ops, at)[j] => i = j
<1> DEFINE n == Len(ops)
           s == Starts(ops, at)
<1>1. /\ n \in Nat /\ DOMAIN ops = 1 .. n /\ s \in [1 .. n + 1 -> Nat] /\ s[1] = at
      /\ \A k \in 1 .. n : ops[k].len \in Nat /\ ops[k].len > 0
  BY StartsRec DEF Ops
<1>2. Bytes(ops) \in Nat /\ s[n + 1] = at + Bytes(ops)
  <2>1. Starts(ops, 0) \in [1 .. n + 1 -> Nat]
    BY StartsRec
  <2>2. n + 1 \in 1 .. n + 1
    BY <1>1
  <2>3. s[n + 1] = at + Starts(ops, 0)[n + 1]
    BY <2>2, StartsShift
  <2> QED
    BY <2>1, <2>2, <2>3 DEF Bytes
<1>3. \A i, j \in 1 .. n + 1 : i < j => s[i] + ops[i].len <= s[j]
  BY StartsOrder
<1> HIDE DEF n, s
<1>4. ASSUME NEW k \in 1 .. n
      PROVE  s[k] \in Nat /\ at <= s[k] /\ s[k] + ops[k].len <= at + Bytes(ops)
               /\ s[k] < at + Bytes(ops)
  <2>1. s[k] \in Nat /\ ops[k].len \in Nat /\ ops[k].len > 0
    BY <1>1
  <2>2. s[k] + ops[k].len <= at + Bytes(ops)
    BY <1>1, <1>2, <1>3
  <2>3. at <= s[k]
    <3>1. CASE k = 1
      BY <3>1, <1>1
    <3>2. CASE k # 1
      <4>1. 1 \in 1 .. n /\ 1 < k /\ s[1] + ops[1].len <= s[k] /\ ops[1].len \in Nat
        BY <1>1, <1>3, <3>2
      <4> QED
        BY <4>1, <2>1, <1>1
    <3> QED
      BY <3>1, <3>2
  <2> QED
    BY <1>2, <2>1, <2>2, <2>3
<1>5. ASSUME NEW i \in 1 .. n, NEW j \in 1 .. n, s[i] = s[j] PROVE i = j
  <2>1. /\ i < j => s[i] + ops[i].len <= s[j]
        /\ j < i => s[j] + ops[j].len <= s[i]
    BY <1>1, <1>3
  <2>2. /\ s[i] \in Nat /\ s[j] \in Nat /\ ops[i].len \in Nat /\ ops[j].len \in Nat
        /\ ops[i].len > 0 /\ ops[j].len > 0
    BY <1>1
  <2> QED
    BY <1>5, <2>1, <2>2
<1> QED
  BY <1>1, <1>2, <1>4, <1>5 DEF n, s

\* Code that consists of two parts.
LEMMA StartsConcat ==
  ASSUME NEW S, Ops(S), NEW q \in Seq(S), NEW r \in Seq(S), NEW at \in Nat
  PROVE  /\ \A k \in 1 .. Len(q) + 1 : Starts(q \o r, at)[k] = Starts(q, at)[k]
         /\ \A k \in 1 .. Len(r) + 1 :
               Starts(q \o r, at)[Len(q) + k] = Starts(r, at + Bytes(q))[k]
         /\ Bytes(q \o r) = Bytes(q) + Bytes(r)
<1> DEFINE m == Len(q)
           n == Len(r)
           s == Starts(q \o r, at)
           t == Starts(q, at)
           u == Starts(r, at + Bytes(q))
<1>1. /\ m \in Nat /\ n \in Nat /\ q \o r \in Seq(S) /\ Len(q \o r) = m + n
      /\ \A k \in 1 .. m : (q \o r)[k] = q[k]
      /\ \A k \in 1 .. n : (q \o r)[m + k] = r[k]
  OBVIOUS
<1>2. Bytes(q) \in Nat /\ Bytes(r) \in Nat /\ at + Bytes(q) \in Nat
  <2>1. Bytes(q) \in Nat /\ Bytes(r) \in Nat
    BY StartsWithin
  <2> QED
    BY <2>1
<1>3. /\ s \in [1 .. m + n + 1 -> Nat] /\ s[1] = at
      /\ \A k \in 1 .. m + n : s[k + 1] = s[k] + (q \o r)[k].len
  <2> DEFINE qr == q \o r
  <2>1. qr \in Seq(S) /\ Len(qr) = m + n
    BY <1>1
  <2> HIDE DEF qr
  <2>2. /\ Starts(qr, at) \in [1 .. Len(qr) + 1 -> Nat] /\ Starts(qr, at)[1] = at
        /\ \A k \in 1 .. Len(qr) : Starts(qr, at)[k + 1] = Starts(qr, at)[k] + qr[k].len
    BY <2>1, StartsRec
  <2> QED
    BY <2>1, <2>2 DEF qr
<1>4. /\ t \in [1 .. m + 1 -> Nat] /\ t[1] = at
      /\ \A k \in 1 .. m : t[k + 1] = t[k] + q[k].len
  BY StartsRec
<1>5. /\ u \in [1 .. n + 1 -> Nat] /\ u[1] = at + Bytes(q)
      /\ \A k \in 1 .. n : u[k + 1] = u[k] + r[k].len
  BY <1>2, StartsRec
<1>6. t[m + 1] = at + Bytes(q)
  BY StartsWithin
<1>7. u[n + 1] = at + Bytes(q) + Bytes(r)
  BY <1>2, StartsWithin
<1>8. s[m + n + 1] = at + Bytes(q \o r) /\ Bytes(q \o r) \in Nat
  BY <1>1, StartsWithin
<1> HIDE DEF m, n, s, t, u
<1> DEFINE T == {k \in 1 .. m + 1 : s[k] = t[k]}
           U == {k \in 1 .. n + 1 : s[m + k] = u[k]}
<1>9. 1 .. m + 1 \subseteq T
  <2>1. 1 \in T
    BY <1>1, <1>3, <1>4
  <2>2. ASSUME NEW k \in 1 .. m, k \in T PROVE k + 1 \in T
    <3>1. k \in 1 .. m + n /\ k + 1 \in 1 .. m + 1 /\ (q \o r)[k] = q[k]
      BY <1>1
    <3> QED
      BY <1>3, <1>4, <2>2, <3>1
  <2> HIDE DEF T
  <2> QED
    BY <1>1, <2>1, <2>2, IndexInduction
<1>10. 1 .. n + 1 \subseteq U
  <2>1. 1 \in U
    BY <1>1, <1>5, <1>6, <1>9
  <2>2. ASSUME NEW k \in 1 .. n, k \in U PROVE k + 1 \in U
    <3>1. m + k \in 1 .. m + n /\ k + 1 \in 1 .. n + 1 /\ (q \o r)[m + k] = r[k]
            /\ (m + k) + 1 = m + (k + 1)
      BY <1>1
    <3>2. s[(m + k) + 1] = s[m + k] + r[k].len /\ u[k + 1] = u[k] + r[k].len
      BY <1>3, <1>5, <3>1
    <3> QED
      BY <2>2, <3>1, <3>2
  <2> HIDE DEF U
  <2> QED
    BY <1>1, <2>1, <2>2, IndexInduction
<1>11. Bytes(q \o r) = Bytes(q) + Bytes(r)
  <2>1. n + 1 \in 1 .. n + 1 /\ m + (n + 1) = m + n + 1
    BY <1>1
  <2>2. s[m + n + 1] = u[n + 1]
    BY <2>1, <1>10
  <2> DEFINE c == Bytes(q \o r)
  <2>3. c \in Nat /\ at + c = at + Bytes(q) + Bytes(r)
    BY <2>2, <1>7, <1>8
  <2> HIDE DEF c
  <2>4. c = Bytes(q) + Bytes(r)
    BY <2>3, <1>2
  <2> QED
    BY <2>4 DEF c
<1> QED
  BY <1>9, <1>10, <1>11 DEF m, n, s, t, u

\* Code of one instruction is as long as it.
LEMMA BytesOne ==
  ASSUME NEW S, Ops(S), NEW o \in S PROVE Bytes(<<o>>) = o.len
<1>1. <<o>> \in Seq(S) /\ Len(<<o>>) = 1 /\ <<o>>[1] = o /\ o.len \in Nat
  BY DEF Ops
<1> DEFINE s == <<o>>
<1> HIDE DEF s
<1>2. Starts(s, 0)[1] = 0 /\ Starts(s, 0)[1 + 1] = Starts(s, 0)[1] + s[1].len
  <2>1. s \in Seq(S) /\ Len(s) = 1
    BY <1>1 DEF s
  <2>2. /\ Starts(s, 0)[1] = 0
        /\ \A k \in 1 .. Len(s) : Starts(s, 0)[k + 1] = Starts(s, 0)[k] + s[k].len
    BY <2>1, StartsRec
  <2> QED
    BY <2>1, <2>2
<1>3. Bytes(s) = s[1].len
  BY <1>1, <1>2 DEF Bytes, s
<1> QED
  BY <1>1, <1>3 DEF s
-----------------------------------------------------------------------------
\* Text.

\* Code of two parts is there when both are, one after the other.
LEMMA PlacedConcat ==
  ASSUME NEW S, Ops(S), NEW q \in Seq(S), NEW r \in Seq(S), NEW at \in Nat, NEW t
  PROVE  Placed(t, q \o r, at) <=> Placed(t, q, at) /\ Placed(t, r, at + Bytes(q))
<1> DEFINE m == Len(q)
           n == Len(r)
<1>1. /\ m \in Nat /\ n \in Nat /\ DOMAIN q = 1 .. m /\ DOMAIN r = 1 .. n
      /\ DOMAIN (q \o r) = 1 .. m + n
      /\ \A k \in 1 .. m : (q \o r)[k] = q[k]
      /\ \A k \in 1 .. n : (q \o r)[m + k] = r[k]
  OBVIOUS
<1>2. \A k \in 1 .. m : Starts(q \o r, at)[k] = Starts(q, at)[k]
  BY <1>1, StartsConcat
<1>3. \A k \in 1 .. n : Starts(q \o r, at)[m + k] = Starts(r, at + Bytes(q))[k]
  BY <1>1, StartsConcat
<1> HIDE DEF m, n
<1>4. ASSUME Placed(t, q \o r, at) PROVE Placed(t, q, at) /\ Placed(t, r, at + Bytes(q))
  <2>1. \A k \in 1 .. m : k \in 1 .. m + n
    BY <1>1
  <2>2. \A k \in 1 .. n : m + k \in 1 .. m + n
    BY <1>1
  <2>3. Placed(t, q, at)
    BY <1>1, <1>2, <1>4, <2>1 DEF Placed
  <2>4. Placed(t, r, at + Bytes(q))
    BY <1>1, <1>3, <1>4, <2>2 DEF Placed
  <2> QED
    BY <2>3, <2>4
<1>5. ASSUME Placed(t, q, at), Placed(t, r, at + Bytes(q)) PROVE Placed(t, q \o r, at)
  <2> SUFFICES ASSUME NEW k \in 1 .. m + n
               PROVE  LET x == Starts(q \o r, at)[k] IN x \in DOMAIN t /\ t[x] = (q \o r)[k]
    BY <1>1 DEF Placed
  <2>1. CASE k \in 1 .. m
    BY <1>1, <1>2, <1>5, <2>1 DEF Placed
  <2>2. CASE k \notin 1 .. m
    <3>1. k - m \in 1 .. n /\ m + (k - m) = k
      BY <1>1, <2>2
    <3>2. LET x == Starts(r, at + Bytes(q))[k - m] IN x \in DOMAIN t /\ t[x] = r[k - m]
      BY <1>1, <1>5, <3>1 DEF Placed
    <3>3. Starts(q \o r, at)[k] = Starts(r, at + Bytes(q))[k - m] /\ (q \o r)[k] = r[k - m]
      BY <1>1, <1>3, <3>1
    <3> QED
      BY <3>2, <3>3
  <2> QED
    BY <2>1, <2>2
<1> QED
  BY <1>4, <1>5

\* Code that is written is there.
LEMMA PatchedWrites ==
  ASSUME NEW S, Ops(S), NEW ops \in Seq(S), NEW at \in Nat, NEW t
  PROVE  Placed(Patched(t, ops, at), ops, at)
<1> DEFINE s   == Starts(ops, at)
           new == {s[k] : k \in DOMAIN ops}
           p   == Patched(t, ops, at)
<1>1. \A i, j \in DOMAIN ops : s[i] = s[j] => i = j
  BY StartsWithin
<1> HIDE DEF s
<1> SUFFICES ASSUME NEW k \in DOMAIN ops PROVE s[k] \in DOMAIN p /\ p[s[k]] = ops[k]
  BY DEF Placed, s
<1>2. s[k] \in new
  OBVIOUS
<1>3. (CHOOSE j \in DOMAIN ops : s[j] = s[k]) = k
  BY <1>1
<1> HIDE DEF new
<1>4. p = [x \in new \cup (DOMAIN t \ (at .. at + Bytes(ops) - 1)) |->
             IF x \in new THEN ops[CHOOSE j \in DOMAIN ops : s[j] = x] ELSE t[x]]
  BY DEF Patched, s, new
<1> HIDE DEF p
<1> QED
  BY <1>2, <1>3, <1>4

\* What lies apart from the code that is written stays.
LEMMA PatchedKeeps ==
  ASSUME NEW S, Ops(S), NEW ops \in Seq(S), NEW at \in Nat, NEW t,
         NEW x \in Nat, x \notin at .. at + Bytes(ops) - 1
  PROVE  /\ x \in DOMAIN Patched(t, ops, at) <=> x \in DOMAIN t
         /\ x \in DOMAIN t => Patched(t, ops, at)[x] = t[x]
<1> DEFINE s   == Starts(ops, at)
           new == {s[k] : k \in DOMAIN ops}
           p   == Patched(t, ops, at)
<1>1. x \notin new
  <2> SUFFICES ASSUME NEW k \in DOMAIN ops, s[k] = x PROVE FALSE
    OBVIOUS
  <2>1. s[k] \in Nat /\ at <= s[k] /\ s[k] < at + Bytes(ops) /\ Bytes(ops) \in Nat
    BY StartsWithin
  <2> HIDE DEF s
  <2> QED
    BY <2>1
<1>2. p = [y \in new \cup (DOMAIN t \ (at .. at + Bytes(ops) - 1)) |->
             IF y \in new THEN ops[CHOOSE j \in DOMAIN ops : s[j] = y] ELSE t[y]]
  BY DEF Patched
<1> HIDE DEF p, new
<1> QED
  BY <1>1, <1>2 DEF p

\* Code is still there after a write before or behind it.
LEMMA PlacedKept ==
  ASSUME NEW S, Ops(S), NEW ops \in Seq(S), NEW at \in Nat, NEW q \in Seq(S), NEW b \in Nat,
         NEW t, Placed(t, q, b), b + Bytes(q) <= at \/ at + Bytes(ops) <= b
  PROVE  Placed(Patched(t, ops, at), q, b)
<1> SUFFICES ASSUME NEW k \in DOMAIN q
             PROVE  LET x == Starts(q, b)[k]
                    IN  x \in DOMAIN Patched(t, ops, at) /\ Patched(t, ops, at)[x] = q[k]
  BY DEF Placed
<1> DEFINE x == Starts(q, b)[k]
<1>1. x \in Nat /\ b <= x /\ x < b + Bytes(q) /\ Bytes(q) \in Nat /\ Bytes(ops) \in Nat
  BY StartsWithin
<1>2. x \in DOMAIN t /\ t[x] = q[k]
  BY DEF Placed
<1> HIDE DEF x
<1>3. x \notin at .. at + Bytes(ops) - 1
  BY <1>1
<1>4. x \in DOMAIN Patched(t, ops, at) /\ Patched(t, ops, at)[x] = t[x]
  BY <1>1, <1>2, <1>3, PatchedKeeps
<1> QED
  BY <1>2, <1>4 DEF x

\* One instruction for each.
LEMMA JoinedOnes ==
  ASSUME NEW T, NEW f \in Seq(T), NEW codes, Len(codes) = Len(f),
         \A k \in 1 .. Len(f) : codes[k] = <<f[k]>>
  PROVE  Joined(codes) = f
<1> DEFINE n    == Len(f)
           P(j) == j = [k \in 0 .. n |-> IF k = 0 THEN <<>> ELSE j[k - 1] \o codes[k]]
           h    == [k \in 0 .. n |-> SubSeq(f, 1, k)]
           u    == CHOOSE j : P(j)
<1>1. n \in Nat
  OBVIOUS
<1>2. ASSUME NEW k \in 1 .. n PROVE SubSeq(f, 1, k) = SubSeq(f, 1, k - 1) \o <<f[k]>>
  OBVIOUS
<1>3. SubSeq(f, 1, 0) = <<>> /\ SubSeq(f, 1, n) = f
  OBVIOUS
<1>4. ASSUME NEW k \in 0 .. n PROVE h[k] = IF k = 0 THEN <<>> ELSE h[k - 1] \o codes[k]
  <2>1. CASE k = 0
    BY <2>1, <1>3
  <2>2. CASE k # 0
    <3>1. k \in 1 .. n /\ k - 1 \in 0 .. n
      BY <2>2
    <3>2. h[k] = SubSeq(f, 1, k) /\ h[k - 1] = SubSeq(f, 1, k - 1)
      BY <3>1
    <3> HIDE DEF h
    <3> QED
      BY <3>1, <3>2, <1>2, <2>2
  <2> QED
    BY <2>1, <2>2
<1>5. P(h)
  <2>1. h = [k \in 0 .. n |-> h[k]]
    OBVIOUS
  <2> HIDE DEF h, n
  <2> QED
    BY <1>4, <2>1
<1>6. P(u)
  <2> HIDE DEF P
  <2> QED
    BY <1>5
<1> HIDE DEF u
<1>7. Joined(codes) = u[n]
  BY Zenon DEF Joined, u
<1> DEFINE U == {k \in Nat : k <= n => u[k] = SubSeq(f, 1, k)}
<1>8. 0 \in U
  BY <1>1, <1>3, <1>6
<1>9. ASSUME NEW k \in U PROVE k + 1 \in U
  <2> SUFFICES ASSUME k + 1 <= n PROVE u[k + 1] = SubSeq(f, 1, k + 1)
    OBVIOUS
  <2>1. k \in 0 .. n /\ k + 1 \in 1 .. n /\ u[k] = SubSeq(f, 1, k) /\ (k + 1) - 1 = k
    BY <1>1
  <2>2. k + 1 \in 0 .. n /\ k + 1 # 0
    BY <2>1
  <2> HIDE DEF n, U
  <2>3. u[k + 1] = u[k] \o codes[k + 1]
    BY <2>1, <2>2, <1>6
  <2>4. codes[k + 1] = <<f[k + 1]>>
    BY <2>1 DEF n
  <2>5. SubSeq(f, 1, k + 1) = SubSeq(f, 1, k) \o <<f[k + 1]>>
    BY <2>1, <1>2
  <2> QED
    BY <2>1, <2>3, <2>4, <2>5
<1> HIDE DEF U
<1>10. U = Nat
  BY <1>8, <1>9, SetInduction, U \in SUBSET Nat DEF U
<1> QED
  BY <1>1, <1>3, <1>7, <1>10 DEF U
-----------------------------------------------------------------------------
\* What a back end has to say of its code: instructions of S, of the lengths that the
\* translator counts with, and slots that are full of nops.
CodeOK(S) ==
  /\ Ops(S) /\ Nop \in S /\ Nop.len \in {1, 4}
  /\ Boot \in Seq(S) /\ Bytes(Boot) = Prologue
  /\ \A at \in Nat : GuardCode(at) \in Seq(S) /\ Bytes(GuardCode(at)) = Guard
  /\ \A i \in Instr, at \in Nat, to \in Nat \cup {Unmapped} :
        Emit(i, at, to) \in Seq(S) /\ Bytes(Emit(i, at, to)) = Size(i)
  /\ \A i \in Instr : i.op \in BranchOp => Slots(i) % Nop.len = 0

\* The code of the instruction i in the block b: nops while a transfer has no target.
CodeIn(t, i, b) ==
  /\ i.op \notin BranchOp => b.to = Unmapped
  /\ IF i.op \in BranchOp /\ b.to = Unmapped
     THEN Nops(t, b.at, b.at + b.len, b.at)
     ELSE Placed(t, Emit(i, b.at, b.to), b.at) /\ Nops(t, b.at + Size(i), b.at + b.len, b.at)

\* Where the code of the program ends.
End == arch - (IF phase = "done" THEN Guard ELSE 0)

\* The blocks lie between the code before the program and the end, and none overlaps
\* another.
Disjoint ==
  /\ phase # "start" => Prologue <= End
  /\ \A a \in DOMAIN block : /\ Prologue <= block[a].at
                             /\ block[a].at + block[a].len <= End
                             /\ \A b \in DOMAIN block :
                                   a < b => block[a].at + block[a].len <= block[b].at

\* The text holds what has been written so far.
TextInv ==
  phase # "start" =>
    /\ Placed(text, Boot, 0)
    /\ \A a \in DOMAIN block : CodeIn(text, prog.code[a], block[a])
    /\ phase = "done" => Placed(text, GuardCode(arch - Guard), arch - Guard)
-----------------------------------------------------------------------------
\* What jit_vm_instruction adds.
LEMMA NewBlock ==
  ASSUME JitInv, jit_vm_instruction
  PROVE  LET i == prog.code[vm]
             d == Defers(i, Recorded)
         IN  /\ vm \in DOMAIN prog.code /\ vm \in Nat /\ arch \in Nat /\ i \in Instr /\ Sized(i)
             /\ vm \notin DOMAIN block /\ DOMAIN block' = DOMAIN block \cup {vm}
             /\ \A a \in DOMAIN block : a \in Nat /\ a < vm /\ block'[a] = block[a]
             /\ block'[vm] = [at |-> arch, len |-> BlockLen(i, d), to |-> Goes(i, Recorded)]
             /\ BlockLen(i, d) \in Nat /\ arch' = arch + BlockLen(i, d)
             /\ Goes(i, Recorded) \in Nat \cup {Unmapped}
             /\ d <=> i.op \in BranchOp /\ Goes(i, Recorded) = Unmapped
             /\ UNCHANGED <<prog, phase>> /\ phase = "program"
<1> DEFINE i == prog.code[vm]
           d == Defers(i, Recorded)
           b == [at |-> arch, len |-> BlockLen(i, d), to |-> Goes(i, Recorded)]
<1>1. /\ UNCHANGED <<prog, phase>> /\ phase = "program" /\ vm < prog.size
      /\ block' = [a \in DOMAIN block \cup {vm} |-> IF a = vm THEN b ELSE block[a]]
      /\ arch' = arch + BlockLen(i, d)
  BY DEF jit_vm_instruction
<1>2. /\ prog \in Programs /\ vm \in Nat /\ arch \in Nat
      /\ vm \in DOMAIN prog.code
      /\ DOMAIN block = {a \in Body : a < vm}
      /\ \A a \in DOMAIN va2aa : va2aa[a] \in Nat
  BY <1>1 DEF JitInv, JitTypeOK, Progress
<1>3. i \in Instr /\ Sized(i) /\ \A a \in DOMAIN prog.code : a \in Nat
  BY <1>2, ProgramStep
<1>4. BlockLen(i, d) \in Nat
  BY <1>3 DEF Sized, BlockLen, Defers
<1>5. \A a \in DOMAIN Recorded : Recorded[a] \in Nat
  BY <1>2 DEF Recorded
<1>6. /\ Goes(i, Recorded) \in Nat \cup {Unmapped}
      /\ d <=> i.op \in BranchOp /\ Goes(i, Recorded) = Unmapped
  <2>1. Unmapped \notin Nat
    BY DEF Unmapped
  <2> QED
    BY <1>5, <2>1 DEF Goes, as_arch_addr, Defers
<1>7. vm \notin DOMAIN block /\ \A a \in DOMAIN block : a \in Nat /\ a < vm /\ a # vm
  BY <1>2, <1>3 DEF Body
<1>8. /\ DOMAIN block' = DOMAIN block \cup {vm} /\ block'[vm] = b
      /\ \A a \in DOMAIN block : block'[a] = block[a]
  <2> HIDE DEF b
  <2> QED
    BY <1>1, <1>7
<1> QED
  BY <1>1, <1>2, <1>3, <1>4, <1>6, <1>7, <1>8

\* What jit_deferred changes, when it does not defer again.
LEMMA LinkedBlock ==
  ASSUME JitInv, jit_deferred, ~Defers(prog.code[deferred[next].vm], va2aa)
  PROVE  LET jp == deferred[next]
             i  == prog.code[jp.vm]
         IN  /\ jp.vm \in DOMAIN block /\ jp.arch = block[jp.vm].at /\ jp.arch \in Nat
             /\ i \in Instr /\ Sized(i) /\ i.op \in BranchOp
             /\ Size(i) <= block[jp.vm].len
             /\ Goes(i, va2aa) \in Nat
             /\ DOMAIN block' = DOMAIN block
             /\ \A a \in DOMAIN block : a # jp.vm => block'[a] = block[a]
             /\ block'[jp.vm] = [at |-> jp.arch, len |-> block[jp.vm].len,
                                 to |-> Goes(i, va2aa)]
             /\ UNCHANGED <<prog, phase, arch>>
<1> DEFINE jp == deferred[next]
           i  == prog.code[jp.vm]
<1>1. next \in DOMAIN deferred /\ UNCHANGED <<prog, phase, arch>>
  <2>1. next \in Nat /\ next >= 1 /\ next <= Len(deferred)
    BY DEF jit_deferred, JitInv, JitTypeOK, PassOrder
  <2>2. deferred \in Seq([arch : Nat, vm : Nat])
    BY DEF JitInv, JitTypeOK
  <2>3. next \in DOMAIN deferred
    BY <2>1, <2>2
  <2> QED
    BY <2>3 DEF jit_deferred
<1>2. /\ jp.vm \in DOMAIN block /\ i.op \in BranchOp
      /\ jp.arch = block[jp.vm].at /\ prog \in Programs
      /\ block[jp.vm] \in [at : Nat, len : Nat, to : Nat \cup {Unmapped}]
      /\ jp.vm \in DOMAIN prog.code /\ Size(i) <= block[jp.vm].len
  BY <1>1 DEF JitInv, DeferredOK, JitTypeOK, Body, EndToEnd
<1>3. i \in Instr /\ Sized(i)
  BY <1>2, ProgramStep
<1>4. Goes(i, va2aa) \in Nat
  BY <1>2 DEF Goes, as_arch_addr, Defers, JitInv, JitTypeOK
<1>5. block' = [block EXCEPT ![jp.vm].at = jp.arch, ![jp.vm].to = Goes(i, va2aa)]
  BY DEF jit_deferred
<1> HIDE DEF jp, i
<1>6. /\ DOMAIN block' = DOMAIN block
      /\ \A a \in DOMAIN block : a # jp.vm => block'[a] = block[a]
      /\ block'[jp.vm] = [at |-> jp.arch, len |-> block[jp.vm].len, to |-> Goes(i, va2aa)]
  BY <1>2, <1>5
<1> QED
  BY <1>1, <1>2, <1>3, <1>4, <1>6 DEF jp, i

\* Nothing overlaps before the first step.
LEMMA ApartInit == JitInit => Disjoint
<1> SUFFICES ASSUME JitInit PROVE Disjoint
  OBVIOUS
<1>1. DOMAIN block = {} /\ phase = "start"
  BY DEF JitInit
<1> QED
  BY <1>1 DEF Disjoint

\* No step of the translator has two blocks overlap: a deferred one stays where it is.
LEMMA ApartStep == JitInv /\ Disjoint /\ [JitNext]_jitVars => Disjoint'
<1> SUFFICES ASSUME JitInv, Disjoint, [JitNext]_jitVars PROVE Disjoint'
  OBVIOUS
<1>0. arch \in Nat /\ Prologue \in Nat /\ Guard \in Nat
  BY LayoutAssumption DEF JitInv, JitTypeOK
<1>t. \A a \in DOMAIN block : block[a].at \in Nat /\ block[a].len \in Nat
  BY DEF JitInv, JitTypeOK
<1>1. CASE emit_prologue
  <2>1. DOMAIN block = {} /\ block' = block /\ arch' = Prologue /\ phase' = "program"
    BY <1>1 DEF emit_prologue, JitInv, Progress
  <2> QED
    BY <1>0, <2>1 DEF Disjoint, End
<1>2. CASE jit_vm_instruction
  <2> DEFINE len == BlockLen(prog.code[vm], Defers(prog.code[vm], Recorded))
  <2>1. /\ vm \in Nat /\ vm \notin DOMAIN block /\ DOMAIN block' = DOMAIN block \cup {vm}
        /\ \A a \in DOMAIN block : a \in Nat /\ a < vm /\ block'[a] = block[a]
        /\ block'[vm].at = arch /\ block'[vm].len = len
        /\ len \in Nat /\ arch' = arch + len /\ phase' = phase /\ phase = "program"
    BY <1>2, NewBlock
  <2> HIDE DEF len
  <2>2. End = arch /\ End' = arch' /\ Prologue <= arch
    <3>1. arch' \in Nat /\ phase' # "done"
      BY <1>0, <2>1
    <3> QED
      BY <1>0, <2>1, <3>1 DEF End, Disjoint
  <2>3. ASSUME NEW a \in DOMAIN block
        PROVE  /\ Prologue <= block[a].at
               /\ block[a].at + block[a].len <= arch
               /\ \A b \in DOMAIN block : a < b => block[a].at + block[a].len <= block[b].at
    BY <2>2 DEF Disjoint
  <2>4. ASSUME NEW a \in DOMAIN block'
        PROVE  /\ Prologue <= block'[a].at
               /\ block'[a].at + block'[a].len <= arch'
               /\ \A b \in DOMAIN block' : a < b => block'[a].at + block'[a].len <= block'[b].at
    <3>1. CASE a = vm
      BY <1>0, <2>1, <2>2, <3>1
    <3>2. CASE a \in DOMAIN block
      BY <1>0, <1>t, <2>1, <2>3, <3>2
    <3> QED
      BY <2>1, <3>1, <3>2
  <2>5. Prologue <= arch'
    BY <1>0, <2>1, <2>2
  <2> QED
    BY <2>2, <2>4, <2>5 DEF Disjoint
<1>3. CASE end_program \/ UNCHANGED jitVars
  BY <1>3 DEF end_program, jitVars, Disjoint, End
<1>4. CASE jit_deferred
  <2>1. /\ DOMAIN block' = DOMAIN block /\ UNCHANGED arch
        /\ \A a \in DOMAIN block : block'[a].at = block[a].at /\ block'[a].len = block[a].len
        /\ phase = "deferred" /\ phase' \in {"deferred", "undefined"}
    <3>1. CASE Defers(prog.code[deferred[next].vm], va2aa)
      BY <1>4, <3>1 DEF jit_deferred
    <3>2. CASE ~Defers(prog.code[deferred[next].vm], va2aa)
      <4>1. phase = "deferred" /\ UNCHANGED <<phase, arch>>
        BY <1>4, <3>2 DEF jit_deferred
      <4> DEFINE jp == deferred[next]
                 to == Goes(prog.code[jp.vm], va2aa)
      <4>2. /\ DOMAIN block' = DOMAIN block /\ jp.vm \in DOMAIN block
            /\ \A a \in DOMAIN block : a # jp.vm => block'[a] = block[a]
            /\ block'[jp.vm] = [at |-> block[jp.vm].at, len |-> block[jp.vm].len, to |-> to]
        BY <1>4, <3>2, LinkedBlock
      <4> HIDE DEF jp, to
      <4> QED
        BY <4>1, <4>2
    <3> QED
      BY <3>1, <3>2
  <2> QED
    BY <2>1 DEF Disjoint, End
<1>5. CASE emit_guard
  <2>1. UNCHANGED block /\ phase = "deferred" /\ phase' = "done" /\ arch' = arch + Guard
    BY <1>5 DEF emit_guard
  <2>2. End' = End /\ End = arch
    BY <1>0, <2>1 DEF End
  <2> QED
    BY <2>1, <2>2 DEF Disjoint
<1> QED
  BY <1>1, <1>2, <1>3, <1>4, <1>5 DEF JitNext
-----------------------------------------------------------------------------
\* Nops over a range are nops over a part of it.
LEMMA NopsNarrow ==
  ASSUME NEW t, NEW x, NEW y, NEW w, NEW v, NEW at, Nops(t, x, y, at),
         \A z \in w .. v - 1 : z \in x .. y - 1
  PROVE  Nops(t, w, v, at)
BY DEF Nops

\* There is nothing in an empty range.
LEMMA NopsNone ==
  ASSUME NEW t, NEW x \in Int, NEW at PROVE Nops(t, x, x, at)
<1>1. x .. x - 1 = {}
  OBVIOUS
<1> QED
  BY <1>1 DEF Nops

\* The slots that are reserved for a transfer.
LEMMA Reserved ==
  ASSUME NEW S, CodeOK(S), NEW i \in Instr, i.op \in BranchOp, Slots(i) \in Nat, NEW at \in Nat
  PROVE  /\ Reserve(i) \in Seq(S) /\ Bytes(Reserve(i)) = Slots(i)
         /\ \A t : Nops(Patched(t, Reserve(i), at), at, at + Slots(i), at)
<1> DEFINE l == Nop.len
           n == Slots(i) \div l
           r == Reserve(i)
           s == Starts(r, at)
<1>1. l \in {1, 4} /\ Slots(i) % l = 0 /\ Nop \in S /\ Ops(S)
  BY DEF CodeOK
<1>2. n \in Nat /\ n * l = Slots(i)
  <2> HIDE DEF l
  <2>1. CASE l = 1
    BY <2>1
  <2>2. CASE l = 4
    BY <1>1, <2>2
  <2> QED
    BY <1>1, <2>1, <2>2
<1>3. r = [k \in 1 .. n |-> Nop]
  BY DEF Reserve
<1> HIDE DEF n, r
<1>4. r \in Seq(S) /\ Len(r) = n /\ DOMAIN r = 1 .. n /\ \A k \in 1 .. n : r[k] = Nop
  BY <1>1, <1>2, <1>3
<1>5. /\ s \in [1 .. n + 1 -> Nat] /\ s[1] = at
      /\ \A k \in 1 .. n : s[k + 1] = s[k] + l
  <2>1. /\ s \in [1 .. Len(r) + 1 -> Nat] /\ s[1] = at
        /\ \A k \in 1 .. Len(r) : s[k + 1] = s[k] + r[k].len
    BY SMTT(30), <1>1, <1>4, StartsRec
  <2> QED
    BY <1>4, <2>1
<1>6. s[n + 1] = at + Bytes(r) /\ Bytes(r) \in Nat
  BY <1>1, <1>4, StartsWithin
<1> DEFINE T == {k \in 1 .. n + 1 : s[k] = at + (k - 1) * l}
<1> HIDE DEF s, l
<1>7. 1 .. n + 1 \subseteq T
  <2>1. 1 \in T
    BY <1>1, <1>2, <1>5
  <2>2. ASSUME NEW k \in 1 .. n, k \in T PROVE k + 1 \in T
    <3>1. CASE l = 1
      BY <1>2, <1>5, <2>2, <3>1
    <3>2. CASE l = 4
      BY <1>2, <1>5, <2>2, <3>2
    <3> QED
      BY <1>1, <3>1, <3>2
  <2> HIDE DEF T
  <2> QED
    BY <1>2, <2>1, <2>2, IndexInduction
<1>8. Bytes(r) = Slots(i)
  <2>1. s[n + 1] = at + n * l
    <3>1. n + 1 \in T /\ (n + 1) - 1 = n
      BY <1>2, <1>7
    <3> QED
      BY <3>1
  <2> DEFINE c == Bytes(r)
  <2> HIDE DEF c
  <2> QED
    BY <1>2, <1>6, <2>1 DEF c
<1>9. ASSUME NEW t, NEW z \in at .. at + Slots(i) - 1, Aligned(z, at)
      PROVE  z \in DOMAIN Patched(t, r, at) /\ Patched(t, r, at)[z] = Nop
  <2> DEFINE k == ((z - at) \div l) + 1
  <2>1. k \in 1 .. n /\ z = at + (k - 1) * l
    <3>1. CASE l = 1
      BY <1>2, <1>9, <3>1 DEF Aligned, l
    <3>2. CASE l = 4
      BY <1>2, <1>9, <3>2 DEF Aligned, l
    <3> QED
      BY <1>1, <3>1, <3>2
  <2> HIDE DEF k
  <2>2. s[k] = z
    <3>1. k \in T
      BY <1>2, <1>7, <2>1
    <3> QED
      BY <2>1, <3>1
  <2>3. Placed(Patched(t, r, at), r, at)
    BY <1>1, <1>4, PatchedWrites
  <2>4. LET x == s[k] IN x \in DOMAIN Patched(t, r, at) /\ Patched(t, r, at)[x] = r[k]
    BY <1>4, <2>1, <2>3 DEF Placed, s
  <2> QED
    BY <1>4, <2>1, <2>2, <2>4
<1>10. ASSUME NEW t PROVE Nops(Patched(t, r, at), at, at + Slots(i), at)
  BY <1>9 DEF Nops
<1> QED
  BY <1>4, <1>8, <1>10 DEF r

\* What a write elsewhere leaves as it is: nops, and the code of a block.
LEMMA NopsKept ==
  ASSUME NEW S, Ops(S), NEW ops \in Seq(S), NEW at \in Nat, NEW t,
         NEW x \in Nat, NEW y \in Nat, NEW b \in Nat, Nops(t, x, y, b),
         y <= at \/ at + Bytes(ops) <= x
  PROVE  Nops(Patched(t, ops, at), x, y, b)
<1>1. Bytes(ops) \in Nat
  BY StartsWithin
<1> SUFFICES ASSUME NEW z \in x .. y - 1, Aligned(z, b)
             PROVE  z \in DOMAIN Patched(t, ops, at) /\ Patched(t, ops, at)[z] = Nop
  BY DEF Nops
<1>2. z \in Nat /\ z \notin at .. at + Bytes(ops) - 1
  BY <1>1
<1>3. z \in DOMAIN t /\ t[z] = Nop
  BY DEF Nops
<1>4. z \in DOMAIN Patched(t, ops, at) /\ Patched(t, ops, at)[z] = t[z]
  BY <1>2, <1>3, PatchedKeeps
<1> QED
  BY <1>3, <1>4

\* What the translator records of an instruction.
Block == [at : Nat, len : Nat, to : Nat \cup {Unmapped}]

\* Where a block and its code end.
LEMMA CodeSize ==
  ASSUME NEW S, CodeOK(S), NEW i \in Instr, NEW b \in Block, Size(i) \in Nat
  PROVE  /\ Ops(S) /\ b.at \in Nat /\ b.at + b.len \in Nat /\ b.at + Size(i) \in Nat
         /\ b.to \in Nat \cup {Unmapped}
         /\ Emit(i, b.at, b.to) \in Seq(S) /\ Bytes(Emit(i, b.at, b.to)) = Size(i)
<1>1. b.at \in Nat /\ b.len \in Nat /\ b.to \in Nat \cup {Unmapped}
  BY DEF Block
<1>2. \A j \in Instr, at \in Nat, to \in Nat \cup {Unmapped} :
         Emit(j, at, to) \in Seq(S) /\ Bytes(Emit(j, at, to)) = Size(j)
  BY DEF CodeOK
<1>3. Emit(i, b.at, b.to) \in Seq(S) /\ Bytes(Emit(i, b.at, b.to)) = Size(i)
  BY <1>1, <1>2, Zenon
<1>4. Ops(S)
  BY Zenon DEF CodeOK
<1> QED
  BY <1>1, <1>3, <1>4

\* A block is untouched by a write before or behind it.
LEMMA CodeKept ==
  ASSUME NEW S, CodeOK(S), NEW ops \in Seq(S), NEW at \in Nat, NEW t,
         NEW i \in Instr, Size(i) \in Nat, NEW b \in Block, Size(i) <= b.len, CodeIn(t, i, b),
         b.at + b.len <= at \/ at + Bytes(ops) <= b.at
  PROVE  CodeIn(Patched(t, ops, at), i, b)
<1> DEFINE e == Emit(i, b.at, b.to)
           x == b.at
           y == b.at + b.len
           z == b.at + Size(i)
<1>1. /\ Ops(S) /\ x \in Nat /\ y \in Nat /\ z \in Nat /\ x <= z /\ z <= y
      /\ e \in Seq(S) /\ Bytes(e) = Size(i)
  <2>1. b.at \in Nat /\ b.len \in Nat
    BY DEF Block
  <2> QED
    BY <2>1, CodeSize
<1>2. y <= at \/ at + Bytes(ops) <= x
  OBVIOUS
<1>3. Bytes(ops) \in Nat
  BY <1>1, StartsWithin
<1>4. x + Bytes(e) <= at \/ at + Bytes(ops) <= x
  BY <1>1, <1>2
<1>5. y <= at \/ at + Bytes(ops) <= z
  <2> HIDE DEF x, y, z
  <2> QED
    BY <1>1, <1>2, <1>3
<1> HIDE DEF e, x, y, z
<1>6. Nops(t, x, y, x) => Nops(Patched(t, ops, at), x, y, x)
  BY <1>1, <1>2, NopsKept
<1>7. Nops(t, z, y, x) => Nops(Patched(t, ops, at), z, y, x)
  BY <1>1, <1>5, NopsKept
<1>8. Placed(t, e, x) => Placed(Patched(t, ops, at), e, x)
  BY <1>1, <1>4, PlacedKept
<1> QED
  BY <1>6, <1>7, <1>8 DEF CodeIn, e, x, y, z

\* Text that is written over a block that is the instruction's.
LEMMA CodeWritten ==
  ASSUME NEW S, CodeOK(S), NEW t, NEW i \in Instr, NEW b \in Block,
         i.op \notin BranchOp => b.to = Unmapped,
         i.op \in BranchOp => b.to # Unmapped,
         Nops(t, b.at + Size(i), b.at + b.len, b.at), Size(i) \in Nat
  PROVE  CodeIn(Patched(t, Emit(i, b.at, b.to), b.at), i, b)
<1> DEFINE e == Emit(i, b.at, b.to)
           x == b.at
           y == b.at + b.len
           z == b.at + Size(i)
           p == Patched(t, e, x)
<1>1. /\ Ops(S) /\ x \in Nat /\ y \in Nat /\ z \in Nat
      /\ e \in Seq(S) /\ Bytes(e) = Size(i) /\ x + Bytes(e) <= z
  BY CodeSize
<1> HIDE DEF e, x, y, z
<1>2. Placed(p, e, x)
  BY <1>1, PatchedWrites
<1>3. Nops(p, z, y, x)
  <2>1. Nops(t, z, y, x)
    BY DEF x, y, z
  <2> QED
    BY <1>1, <2>1, NopsKept
<1> HIDE DEF p
<1>4. CodeIn(p, i, b)
  BY <1>2, <1>3 DEF CodeIn, e, x, y, z
<1> QED
  BY <1>4 DEF p, e, x
-----------------------------------------------------------------------------
\* The text after each step that writes: before the program,
LEMMA TextPrologue ==
  ASSUME NEW S, CodeOK(S), JitInv, write_prologue PROVE TextInv'
<1>1. /\ text' = Patched(NoText, Boot, 0) /\ phase' = "program" /\ UNCHANGED block
      /\ DOMAIN block = {}
  BY DEF write_prologue, emit_prologue, BootText, JitInv, Progress
<1>2. Placed(text', Boot, 0)
  BY <1>1, PatchedWrites DEF CodeOK
<1> QED
  BY <1>1, <1>2 DEF TextInv

\* an instruction's code, or the slots reserved for it,
LEMMA TextInstruction ==
  ASSUME NEW S, CodeOK(S), JitInv, Disjoint, TextInv, write_instruction PROVE TextInv'
<1> DEFINE i   == prog.code[vm]
           d   == Defers(i, Recorded)
           to  == Goes(i, Recorded)
           len == BlockLen(i, d)
           b   == [at |-> arch, len |-> len, to |-> to]
           ops == IF d THEN Reserve(i) ELSE Emit(i, arch, to)
<1>1. /\ vm \in DOMAIN prog.code /\ arch \in Nat /\ i \in Instr /\ Sized(i)
      /\ DOMAIN block' = DOMAIN block \cup {vm}
      /\ \A a \in DOMAIN block : block'[a] = block[a]
      /\ block'[vm] = b /\ len \in Nat /\ to \in Nat \cup {Unmapped}
      /\ d <=> i.op \in BranchOp /\ to = Unmapped
      /\ UNCHANGED <<prog, phase>> /\ phase = "program"
  BY NewBlock DEF write_instruction
<1>2. text' = Patched(text, ops, arch)
  BY DEF write_instruction
<1>3. Ops(S) /\ ops \in Seq(S) /\ Bytes(ops) = len
  <2>1. CASE d
    BY <1>1, <2>1, Reserved DEF CodeOK, BlockLen, Sized
  <2>2. CASE ~d
    BY <1>1, <2>2 DEF CodeOK, BlockLen
  <2> QED
    BY <2>1, <2>2 DEF CodeOK
<1>4. b \in Block /\ Size(i) \in Nat /\ (d => Slots(i) \in Nat)
  BY <1>1 DEF Block, Sized
<1>5. CodeIn(text', i, b)
  <2>1. CASE d
    <3>1. Nops(Patched(text, Reserve(i), arch), arch, arch + Slots(i), arch)
      BY <1>1, <1>4, <2>1, Reserved
    <3>2. Nops(text', arch, arch + Slots(i), arch)
      BY <1>2, <2>1, <3>1
    <3>3. /\ i.op \in BranchOp /\ b.to = Unmapped /\ b.at = arch /\ b.len = Slots(i)
      BY <1>1, <2>1 DEF BlockLen
    <3> HIDE DEF b, i
    <3> QED
      BY <3>2, <3>3 DEF CodeIn
  <2>2. CASE ~d
    <3>1. b.at = arch /\ b.len = Size(i) /\ b.to = to
      BY <2>2 DEF BlockLen
    <3>2. Nops(text, b.at + Size(i), b.at + b.len, b.at)
      <4>1. arch + Size(i) \in Int
        BY <1>1, <1>4
      <4> HIDE DEF b, i
      <4> QED
        BY <3>1, <4>1, NopsNone
    <3>3. i.op \notin BranchOp => b.to = Unmapped
      BY <3>1 DEF Goes
    <3>4. i.op \in BranchOp => b.to # Unmapped
      BY <1>1, <2>2, <3>1
    <3>5. text' = Patched(text, Emit(i, b.at, b.to), b.at)
      BY <1>2, <2>2, <3>1
    <3> HIDE DEF b, i
    <3>6. CodeIn(Patched(text, Emit(i, b.at, b.to), b.at), i, b)
      BY <1>1, <1>4, <3>2, <3>3, <3>4, CodeWritten DEF i
    <3> QED
      BY <3>5, <3>6
  <2> QED
    BY <2>1, <2>2
<1>6. Prologue \in Nat /\ Prologue <= arch
  BY <1>1, LayoutAssumption DEF Disjoint, End
<1>7. Placed(text', Boot, 0)
  <2>1. Placed(text, Boot, 0) /\ Boot \in Seq(S) /\ 0 + Bytes(Boot) <= arch
    BY <1>1, <1>6 DEF TextInv, CodeOK
  <2> HIDE DEF ops
  <2> QED
    BY <1>1, <1>2, <1>3, <2>1, PlacedKept
<1>8. ASSUME NEW a \in DOMAIN block PROVE CodeIn(text', prog.code[a], block[a])
  <2>1. /\ CodeIn(text, prog.code[a], block[a]) /\ block[a] \in Block
        /\ block[a].at + block[a].len <= arch /\ Size(prog.code[a]) <= block[a].len
        /\ a \in DOMAIN prog.code /\ prog \in Programs
    BY <1>1 DEF TextInv, JitInv, JitTypeOK, Block, Body, Disjoint, End, EndToEnd
  <2>2. prog.code[a] \in Instr /\ Size(prog.code[a]) \in Nat
    BY <2>1, ProgramStep DEF Sized
  <2> HIDE DEF ops
  <2> QED
    BY <1>1, <1>2, <1>3, <2>1, <2>2, CodeKept
<1> HIDE DEF i, b
<1>9. \A a \in DOMAIN block' : CodeIn(text', prog'.code[a], block'[a])
  BY <1>1, <1>5, <1>8 DEF i
<1> QED
  BY <1>1, <1>7, <1>9 DEF TextInv

\* a transfer's code over its slots,
LEMMA TextDeferred ==
  ASSUME NEW S, CodeOK(S), JitInv, Disjoint, TextInv, write_deferred PROVE TextInv'
<1> DEFINE jp == deferred[next]
           i  == prog.code[jp.vm]
           to == Goes(i, va2aa)
           b  == [at |-> jp.arch, len |-> block[jp.vm].len, to |-> to]
<1>1. CASE Defers(i, va2aa)
  <2>1. UNCHANGED <<text, prog, block>> /\ phase = "deferred" /\ phase' = "undefined"
    BY <1>1 DEF write_deferred, jit_deferred
  <2> QED
    BY <2>1 DEF TextInv
<1>2. CASE ~Defers(i, va2aa)
  <2>1. /\ jp.vm \in DOMAIN block /\ jp.arch = block[jp.vm].at /\ jp.arch \in Nat
        /\ i \in Instr /\ Sized(i) /\ i.op \in BranchOp /\ Size(i) <= block[jp.vm].len
        /\ to \in Nat /\ DOMAIN block' = DOMAIN block
        /\ \A a \in DOMAIN block : a # jp.vm => block'[a] = block[a]
        /\ block'[jp.vm] = b /\ UNCHANGED prog
    BY <1>2, LinkedBlock DEF write_deferred
  <2>2. phase = "deferred" /\ phase' = "deferred"
    BY <1>2 DEF write_deferred, jit_deferred
  <2>3. text' = Patched(text, Emit(i, jp.arch, to), jp.arch)
    BY <1>2 DEF write_deferred
  <2>4. /\ \A a \in DOMAIN block : /\ CodeIn(text, prog.code[a], block[a]) /\ block[a] \in Block
                                   /\ Size(prog.code[a]) <= block[a].len
                                   /\ Prologue <= block[a].at
                                   /\ a \in DOMAIN prog.code /\ a \in Nat
        /\ prog \in Programs /\ Placed(text, Boot, 0) /\ Prologue \in Nat
        /\ \A a, c \in DOMAIN block : a < c => block[a].at + block[a].len <= block[c].at
    <3>1. \A a \in DOMAIN prog.code : prog \in Programs => a \in Nat
      BY ProgramStep
    <3> QED
      BY <2>2, <3>1, LayoutAssumption
         DEF TextInv, JitInv, JitTypeOK, Block, Body, Disjoint, EndToEnd
  <2>5. \A a \in DOMAIN block : prog.code[a] \in Instr /\ Size(prog.code[a]) \in Nat
    BY <2>4, ProgramStep DEF Sized
  <2> HIDE DEF jp, i, to
  <2>6. Unmapped \notin Nat /\ b \in Block /\ block[jp.vm].len \in Nat
    <3>1. block[jp.vm].len \in Nat
      BY <2>1, <2>4 DEF Block
    <3> QED
      BY <2>1, <3>1 DEF Block, Unmapped
  <2>7. CodeIn(text', i, b)
    <3>1. Nops(text, b.at + Size(i), b.at + b.len, b.at)
      <4> DEFINE o == block[jp.vm]
      <4>1. CodeIn(text, i, o) /\ o.at \in Nat /\ o.len \in Nat /\ Size(i) \in Nat
        BY <2>1, <2>4, <2>5 DEF Block, i
      <4> HIDE DEF o
      <4>2. Nops(text, o.at + Size(i), o.at + o.len, o.at)
        <5>1. CASE Nops(text, o.at, o.at + o.len, o.at)
          <6> DEFINE w == o.at + Size(i)
                     y == o.at + o.len
          <6>1. \A z \in w .. y - 1 : z \in o.at .. y - 1
            BY <4>1
          <6> HIDE DEF w, y
          <6>2. Nops(text, o.at, y, o.at)
            BY <5>1 DEF y
          <6>3. Nops(text, w, y, o.at)
            BY <6>1, <6>2, NopsNarrow
          <6> QED
            BY <6>3 DEF w, y
        <5> QED
          BY <4>1, <5>1 DEF CodeIn
      <4> QED
        BY <2>1, <4>2 DEF o
    <3>2. CodeIn(Patched(text, Emit(i, b.at, b.to), b.at), i, b)
      <4>1. Size(i) \in Nat /\ i \in Instr /\ b.to # Unmapped
        BY <2>1, <2>6 DEF Sized
      <4> HIDE DEF b
      <4> QED
        BY <2>1, <2>6, <3>1, <4>1, CodeWritten
    <3> QED
      BY <2>3, <3>2
  <2> DEFINE ops == Emit(i, jp.arch, to)
  <2>8. ops \in Seq(S) /\ Bytes(ops) = Size(i) /\ Size(i) \in Nat /\ Ops(S)
    BY <2>1 DEF CodeOK, Sized
  <2> HIDE DEF ops
  <2>9. ASSUME NEW a \in DOMAIN block, a # jp.vm PROVE CodeIn(text', prog.code[a], block[a])
    <3> DEFINE o == block[a]
               x == jp.arch
    <3>1. o.at + o.len <= x \/ x + Bytes(ops) <= o.at
      <4>1. a \in Nat /\ jp.vm \in Nat
        BY <2>1, <2>4
      <4>2. CASE a < jp.vm
        BY <2>1, <2>4, <4>2
      <4>3. CASE jp.vm < a
        <5>1. block[jp.vm].at + block[jp.vm].len <= o.at /\ o.at \in Nat
          BY <2>1, <2>4, <4>3 DEF Block
        <5> QED
          BY <2>1, <2>6, <2>8, <5>1
      <4> QED
        BY <2>9, <4>1, <4>2, <4>3
    <3>2. CodeIn(text, prog.code[a], o) /\ o \in Block /\ Size(prog.code[a]) <= o.len
            /\ x \in Nat /\ prog.code[a] \in Instr /\ Size(prog.code[a]) \in Nat
      BY <2>1, <2>4, <2>5
    <3> HIDE DEF o, x
    <3>3. CodeIn(Patched(text, ops, x), prog.code[a], o)
      BY <2>8, <3>1, <3>2, CodeKept
    <3> QED
      BY <2>3, <3>3 DEF o, x, ops
  <2>10. Placed(text', Boot, 0)
    <3>1. Boot \in Seq(S) /\ 0 + Bytes(Boot) <= jp.arch
      <4>1. Boot \in Seq(S) /\ Bytes(Boot) = Prologue
        BY Zenon DEF CodeOK
      <4> QED
        BY <2>1, <2>4, <4>1
    <3>2. Placed(Patched(text, ops, jp.arch), Boot, 0)
      BY <2>1, <2>4, <2>8, <3>1, PlacedKept
    <3> QED
      BY <2>3, <3>2 DEF ops
  <2> HIDE DEF b
  <2>11. \A a \in DOMAIN block' : CodeIn(text', prog'.code[a], block'[a])
    BY <2>1, <2>7, <2>9 DEF i
  <2> QED
    BY <2>2, <2>10, <2>11 DEF TextInv
<1> QED
  BY <1>1, <1>2

\* the code after the program.
LEMMA TextGuard ==
  ASSUME NEW S, CodeOK(S), JitInv, Disjoint, TextInv, write_guard PROVE TextInv'
<1> DEFINE ops == GuardCode(arch)
<1>1. /\ text' = Patched(text, ops, arch) /\ arch' = arch + Guard /\ phase = "deferred"
      /\ phase' = "done" /\ UNCHANGED <<prog, block>>
  BY DEF write_guard, emit_guard
<1>2. /\ prog \in Programs /\ arch \in Nat /\ Prologue <= arch /\ Prologue \in Nat
      /\ Guard \in Nat /\ Placed(text, Boot, 0)
      /\ \A a \in DOMAIN block : /\ CodeIn(text, prog.code[a], block[a]) /\ block[a] \in Block
                                 /\ Size(prog.code[a]) <= block[a].len
                                 /\ block[a].at + block[a].len <= arch
                                 /\ a \in DOMAIN prog.code
  BY <1>1, LayoutAssumption DEF TextInv, JitInv, JitTypeOK, Block, Body, Disjoint, End, EndToEnd
<1>3. ops \in Seq(S) /\ Ops(S) /\ Boot \in Seq(S) /\ 0 + Bytes(Boot) <= arch
  BY <1>2 DEF CodeOK
<1> HIDE DEF ops
<1>4. Placed(text', Boot, 0)
  BY <1>1, <1>2, <1>3, PlacedKept
<1>5. ASSUME NEW a \in DOMAIN block PROVE CodeIn(text', prog.code[a], block[a])
  <2>1. prog.code[a] \in Instr /\ Size(prog.code[a]) \in Nat
    BY <1>2, ProgramStep DEF Sized
  <2> QED
    BY <1>1, <1>2, <1>3, <2>1, CodeKept
<1>6. Placed(text', GuardCode(arch' - Guard), arch' - Guard)
  <2>1. arch' - Guard = arch
    BY <1>1, <1>2
  <2>2. Placed(text', ops, arch)
    BY <1>1, <1>2, <1>3, PatchedWrites
  <2> QED
    BY <2>1, <2>2 DEF ops
<1> QED
  BY <1>1, <1>4, <1>5, <1>6 DEF TextInv
-----------------------------------------------------------------------------
\* The inductive invariant behind InPlace: what has been written so far is what the
\* positions and mappings of the translator say, and it lies apart.
CodeInv == JitInv /\ Disjoint /\ TextInv

\* The text is right from the first step on, whatever runs it.
LEMMA CodeInvInit == JitInit => CodeInv
<1>1. JitInit => TextInv
  BY DEF JitInit, TextInv
<1> QED
  BY <1>1, JitInvInit, ApartInit DEF CodeInv

\* Each step of the translator keeps the invariant, and so does what leaves text and
\* translator as they are.
LEMMA CodeInvStep ==
  ASSUME NEW S, CodeOK(S), CodeInv, Translate \/ UNCHANGED <<jitVars, text>> PROVE CodeInv'
<1>1. [JitNext]_jitVars
  BY TranslateSteps
<1>2. JitInv' /\ Disjoint'
  BY <1>1, JitInvStep, ApartStep DEF CodeInv
<1>3. TextInv'
  <2>1. CASE write_prologue \/ write_instruction \/ write_deferred \/ write_guard
    BY <2>1, TextPrologue, TextInstruction, TextDeferred, TextGuard DEF CodeInv
  <2>2. CASE write_end
    BY <2>2 DEF write_end, end_program, CodeInv, TextInv
  <2>3. CASE UNCHANGED <<jitVars, text>>
    BY <2>3 DEF jitVars, CodeInv, TextInv
  <2> QED
    BY <2>1, <2>2, <2>3 DEF Translate
<1> QED
  BY <1>2, <1>3 DEF CodeInv

\* With it, everything is in its place when the translator is done.
LEMMA CodeInvInPlace == CodeInv => InPlace
<1> SUFFICES ASSUME CodeInv, phase = "done" PROVE InPlace
  BY DEF InPlace
<1>1. /\ DOMAIN block = Body
      /\ \A a \in Transfer : prog.code[a].tgt \in DOMAIN va2aa
                               /\ block[a].to = va2aa[prog.code[a].tgt]
  BY JitInvLinked DEF CodeInv, Linked
<1>2. \A a \in DOMAIN va2aa : va2aa[a] # Unmapped
  BY DEF CodeInv, JitInv, JitTypeOK, Unmapped
<1>3. ASSUME NEW a \in Body
      PROVE  LET i  == prog.code[a]
                 at == va2aa[a]
             IN  /\ Placed(text, Emit(i, at, Goes(i, va2aa)), at)
                 /\ Nops(text, at + Size(i), at + block[a].len, at)
  <2> DEFINE i == prog.code[a]
             b == block[a]
  <2>1. CodeIn(text, i, b) /\ b.at = va2aa[a]
    BY <1>1 DEF CodeInv, TextInv, JitInv, EndToEnd
  <2>2. b.to = Goes(i, va2aa) /\ (i.op \in BranchOp => b.to # Unmapped)
    <3>1. CASE i.op \in BranchOp
      BY <1>1, <1>2, <3>1 DEF Goes, as_arch_addr, Transfer
    <3>2. CASE i.op \notin BranchOp
      BY <2>1, <3>2 DEF Goes, CodeIn
    <3> QED
      BY <3>1, <3>2
  <2> HIDE DEF i, b
  <2>3. Placed(text, Emit(i, b.at, b.to), b.at) /\ Nops(text, b.at + Size(i), b.at + b.len, b.at)
    BY <2>1, <2>2 DEF CodeIn
  <2>4. /\ Placed(text, Emit(i, va2aa[a], Goes(i, va2aa)), va2aa[a])
        /\ Nops(text, va2aa[a] + Size(i), va2aa[a] + b.len, va2aa[a])
    BY <2>1, <2>2, <2>3
  <2> QED
    BY <2>4 DEF i, b
<1>4. Placed(text, Boot, 0) /\ Placed(text, GuardCode(arch - Guard), arch - Guard)
  BY DEF CodeInv, TextInv
<1> QED
  BY <1>3, <1>4 DEF InPlace
-----------------------------------------------------------------------------
\* Where the code of the stub and of the first instruction are, and how long a block is.
Laid ==
  /\ phase # "start" =>
       /\ va2aa[SYS_ENTER_ADDR] = StubAt
       /\ IF FirstAddr \in DOMAIN block THEN block[FirstAddr].at = Prologue ELSE End = Prologue
  /\ \A a \in DOMAIN block :
        \/ block[a].len = Size(prog.code[a])
        \/ prog.code[a].op \in BranchOp /\ block[a].len = Slots(prog.code[a])

\* It is so at the start.
LEMMA LaidInit == JitInit => Laid
BY DEF JitInit, Laid

\* The translator keeps it so: it goes over the program from its first instruction.
LEMMA LaidStep == JitInv /\ Laid /\ [JitNext]_jitVars => Laid'
<1> SUFFICES ASSUME JitInv, Laid, [JitNext]_jitVars PROVE Laid'
  OBVIOUS
<1>0. arch \in Nat /\ Prologue \in Nat /\ Guard \in Nat
  BY LayoutAssumption DEF JitInv, JitTypeOK
<1>1. CASE emit_prologue
  <2>1. /\ DOMAIN block = {} /\ block' = block /\ arch' = Prologue /\ phase' = "program"
        /\ va2aa' = [a \in {SYS_ENTER_ADDR} |-> StubAt]
    BY <1>1 DEF emit_prologue, JitInv, Progress
  <2>2. End' = Prologue
    BY <1>0, <2>1 DEF End
  <2> QED
    BY <2>1, <2>2 DEF Laid
<1>2. CASE jit_vm_instruction
  <2> DEFINE i == prog.code[vm]
             len == BlockLen(i, Defers(i, Recorded))
  <2>1. /\ vm \in DOMAIN prog.code /\ vm \notin DOMAIN block
        /\ DOMAIN block' = DOMAIN block \cup {vm}
        /\ \A a \in DOMAIN block : block'[a] = block[a]
        /\ block'[vm].at = arch /\ block'[vm].len = len /\ UNCHANGED <<prog, phase>>
        /\ phase = "program"
    BY <1>2, NewBlock
  <2>2. /\ va2aa' = Recorded /\ prog \in Programs /\ vm > SYS_ENTER_ADDR /\ vm \in Nat
        /\ DOMAIN va2aa = {a \in DOMAIN prog.code : a < vm} /\ vm < prog.size
        /\ DOMAIN block = {a \in Body : a < vm}
    BY <1>2, <2>1 DEF jit_vm_instruction, JitInv, JitTypeOK, Progress
  <2>3. /\ SYS_ENTER_ADDR \in DOMAIN va2aa /\ SYS_ENTER_ADDR # vm
        /\ FirstAddr \in DOMAIN prog.code \cup {prog.size} /\ ~(vm < FirstAddr)
    BY <2>1, <2>2, FirstStep DEF SYS_ENTER_ADDR
  <2>4. va2aa'[SYS_ENTER_ADDR] = StubAt
    BY <2>1, <2>2, <2>3 DEF Recorded, Laid
  <2>5. FirstAddr \in DOMAIN block' /\ block'[FirstAddr].at = Prologue
    <3>1. CASE FirstAddr \in DOMAIN block
      BY <2>1, <3>1 DEF Laid
    <3>2. CASE FirstAddr = vm
      BY <1>0, <2>1, <3>2 DEF Laid, End
    <3>3. CASE FirstAddr \notin DOMAIN block /\ FirstAddr # vm
      <4>1. FirstAddr < vm
        BY <2>2, <2>3, <3>3 DEF FirstAddr
      <4>2. prog.size \in Nat
        BY <2>1, <2>2, ProgramStep
      <4>3. FirstAddr \in DOMAIN prog.code
        BY <2>2, <2>3, <4>1, <4>2 DEF FirstAddr
      <4> QED
        BY <2>2, <3>3, <4>1, <4>3 DEF Body, FirstAddr, SYS_ENTER_ADDR
    <3> QED
      BY <3>1, <3>2, <3>3
  <2>6. len = Size(i) \/ (i.op \in BranchOp /\ len = Slots(i))
    BY DEF BlockLen, Defers
  <2> HIDE DEF len
  <2> QED
    BY <2>1, <2>4, <2>5, <2>6 DEF Laid
<1>3. CASE end_program \/ UNCHANGED jitVars
  BY <1>3 DEF end_program, jitVars, Laid, End
<1>4. CASE jit_deferred
  <2>1. /\ DOMAIN block' = DOMAIN block /\ UNCHANGED <<arch, prog, va2aa>>
        /\ \A a \in DOMAIN block : block'[a].at = block[a].at /\ block'[a].len = block[a].len
        /\ phase = "deferred" /\ phase' \in {"deferred", "undefined"}
    <3>1. CASE Defers(prog.code[deferred[next].vm], va2aa)
      BY <1>4, <3>1 DEF jit_deferred
    <3>2. CASE ~Defers(prog.code[deferred[next].vm], va2aa)
      <4>1. phase = "deferred" /\ UNCHANGED <<phase, arch, prog, va2aa>>
        BY <1>4, <3>2 DEF jit_deferred
      <4> DEFINE jp == deferred[next]
                 to == Goes(prog.code[jp.vm], va2aa)
      <4>2. /\ DOMAIN block' = DOMAIN block /\ jp.vm \in DOMAIN block
            /\ \A a \in DOMAIN block : a # jp.vm => block'[a] = block[a]
            /\ block'[jp.vm] = [at |-> block[jp.vm].at, len |-> block[jp.vm].len, to |-> to]
        BY <1>4, <3>2, LinkedBlock
      <4> HIDE DEF jp, to
      <4> QED
        BY <4>1, <4>2
    <3> QED
      BY <3>1, <3>2
  <2> QED
    BY <2>1 DEF Laid, End
<1>5. CASE emit_guard
  <2>1. /\ UNCHANGED <<block, va2aa, prog>> /\ phase = "deferred" /\ phase' = "done"
        /\ arch' = arch + Guard
    BY <1>5 DEF emit_guard
  <2>2. End' = End /\ End = arch
    BY <1>0, <2>1 DEF End
  <2> QED
    BY <2>1, <2>2 DEF Laid
<1> QED
  BY <1>1, <1>2, <1>3, <1>4, <1>5 DEF JitNext
=============================================================================
