------------------------------ MODULE Recursion ------------------------------
(***************************************************************************)
(* Induction over the natural numbers, and what it is needed for: that a    *)
(* function defined by recursion over them exists. To the provers such a    *)
(* definition is a CHOOSE, of which nothing follows without a solution. Sets *)
(* stand for the predicates that the induction principles of the library    *)
(* take as operators.                                                       *)
(***************************************************************************)
EXTENDS Integers, WellFoundedInduction, TLAPS

LEMMA Least ==
  ASSUME NEW T \in SUBSET Nat, T # {}
  PROVE  \E n \in T : \A m \in T : n <= m
<1>1. PICK n \in T : \A m \in T : ~(<<m, n>> \in OpToRel(<, Nat))
  BY NatLessThanWellFounded, WFMin
<1>2. \A m \in T : ~(m < n)
  BY <1>1, Zenon DEF OpToRel
<1> QED
  BY <1>2

\* The instances of an induction are the members of a set.
LEMMA SetInduction ==
  ASSUME NEW T \in SUBSET Nat, 0 \in T, \A n \in T : n + 1 \in T
  PROVE  T = Nat
<1> SUFFICES ASSUME T # Nat PROVE FALSE
  OBVIOUS
<1>1. PICK n \in Nat \ T : \A m \in Nat \ T : n <= m
  BY Least, Nat \ T # {}
<1>2. n # 0 /\ n - 1 \in Nat
  BY <1>1
<1>3. n - 1 \in T
  BY <1>1, <1>2
<1> QED
  BY <1>1, <1>2, <1>3

\* Along the positions of a sequence.
LEMMA IndexInduction ==
  ASSUME NEW n \in Nat, NEW T, 1 \in T, \A k \in 1 .. n : k \in T => k + 1 \in T
  PROVE  1 .. n + 1 \subseteq T
<1> DEFINE U == {k \in Nat : k + 1 \in 1 .. n + 1 => k + 1 \in T}
<1>1. 0 \in U
  OBVIOUS
<1>2. ASSUME NEW k \in U PROVE k + 1 \in U
  OBVIOUS
<1> HIDE DEF U
<1>3. U = Nat
  BY <1>1, <1>2, SetInduction, U \in SUBSET Nat DEF U
<1>4. ASSUME NEW k \in 1 .. n + 1 PROVE k \in T
  <2>1. k - 1 \in Nat /\ (k - 1) + 1 = k
    OBVIOUS
  <2> QED
    BY <2>1, <1>3 DEF U
<1> QED
  BY <1>4
-----------------------------------------------------------------------------
\* f is what the recursion from base by step gives.
Recurs(f, base, step) == f[0] = base /\ \A n \in Nat : f[n + 1] = step[<<n, f[n]>>]

\* f has the first m of the values that the recursion gives.
Solves(m, f, V, base, step) ==
  /\ f \in [0 .. m -> V] /\ f[0] = base
  /\ \A n \in 0 .. m - 1 : f[n + 1] = step[<<n, f[n]>>]

LEMMA SolvesNext ==
  ASSUME NEW V, NEW base \in V, NEW step, NEW m \in Nat, NEW f,
         \A n \in Nat, v \in V : step[<<n, v>>] \in V, Solves(m, f, V, base, step)
  PROVE  \E g : Solves(m + 1, g, V, base, step)
<1> DEFINE g == [n \in 0 .. m + 1 |-> IF n = m + 1 THEN step[<<m, f[m]>>] ELSE f[n]]
<1>1. f \in [0 .. m -> V] /\ f[0] = base /\ m \in 0 .. m
  BY DEF Solves
<1>2. f[m] \in V /\ step[<<m, f[m]>>] \in V
  BY <1>1
<1>3. g \in [0 .. m + 1 -> V] /\ g[0] = base
  BY <1>1, <1>2
<1>4. ASSUME NEW n \in 0 .. m PROVE g[n + 1] = step[<<n, g[n]>>]
  <2>1. g[n] = f[n] /\ n \in Nat /\ n + 1 \in 0 .. m + 1
    OBVIOUS
  <2>2. CASE n = m
    BY <2>1, <2>2
  <2>3. CASE n # m
    BY <2>1, <2>3 DEF Solves
  <2> QED
    BY <2>2, <2>3
<1> HIDE DEF g
<1>5. Solves(m + 1, g, V, base, step)
  BY <1>3, <1>4 DEF Solves
<1> QED
  BY <1>5

LEMMA SolvesAlike ==
  ASSUME NEW V, NEW base, NEW step, NEW m \in Nat, NEW f, NEW g,
         Solves(m, f, V, base, step), Solves(m + 1, g, V, base, step)
  PROVE  g[m] = f[m]
<1> DEFINE Same == {n \in Nat : n \in 0 .. m => f[n] = g[n]}
<1>1. 0 \in Same
  BY DEF Solves
<1>2. ASSUME NEW n \in Same PROVE n + 1 \in Same
  <2> SUFFICES ASSUME n + 1 \in 0 .. m PROVE f[n + 1] = g[n + 1]
    OBVIOUS
  <2>1. n \in 0 .. m - 1 /\ n \in 0 .. (m + 1) - 1 /\ f[n] = g[n]
    OBVIOUS
  <2> HIDE DEF Same
  <2>2. f[n + 1] = step[<<n, f[n]>>] /\ g[n + 1] = step[<<n, g[n]>>]
    BY <2>1 DEF Solves
  <2> QED
    BY <2>1, <2>2
<1> HIDE DEF Same
<1>3. Same = Nat
  BY <1>1, <1>2, SetInduction, Same \in SUBSET Nat DEF Same
<1> QED
  BY <1>3 DEF Same

\* A recursion over the natural numbers has a solution.
LEMMA RecursionExists ==
  ASSUME NEW V, NEW base \in V, NEW step, \A n \in Nat, v \in V : step[<<n, v>>] \in V
  PROVE  \E f \in [Nat -> V] : Recurs(f, base, step)
<1> DEFINE Done == {m \in Nat : \E f : Solves(m, f, V, base, step)}
           F    == [m \in Nat |-> CHOOSE f : Solves(m, f, V, base, step)]
           h    == [m \in Nat |-> F[m][m]]
<1>1. Done = Nat
  <2>1. Solves(0, [n \in 0 .. 0 |-> base], V, base, step)
    BY DEF Solves
  <2>2. 0 \in Done
    BY <2>1
  <2>3. ASSUME NEW m \in Done PROVE m + 1 \in Done
    <3>1. PICK f : Solves(m, f, V, base, step)
      OBVIOUS
    <3>2. \E g : Solves(m + 1, g, V, base, step)
      BY <3>1, SolvesNext
    <3> QED
      BY <3>2
  <2> HIDE DEF Done
  <2>4. Done \in SUBSET Nat
    BY DEF Done
  <2> QED
    BY <2>2, <2>3, <2>4, SetInduction
<1>2. \A m \in Nat : Solves(m, F[m], V, base, step)
  BY <1>1
<1> HIDE DEF F
<1>3. ASSUME NEW m \in Nat PROVE F[m + 1][m] = F[m][m]
  <2>1. Solves(m, F[m], V, base, step) /\ Solves(m + 1, F[m + 1], V, base, step)
    BY <1>2
  <2> QED
    BY <2>1, SolvesAlike
<1>4. h \in [Nat -> V] /\ h[0] = base
  BY <1>2 DEF Solves
<1>5. ASSUME NEW n \in Nat PROVE h[n + 1] = step[<<n, h[n]>>]
  <2>1. F[n + 1][n + 1] = step[<<n, F[n + 1][n]>>]
    BY <1>2 DEF Solves
  <2> QED
    BY <2>1, <1>3
<1> HIDE DEF h
<1>6. Recurs(h, base, step)
  BY <1>4, <1>5 DEF Recurs
<1> QED
  BY <1>4, <1>6

\* f is what the recursion gives for the first n of them.
RecursTo(f, n, base, step) ==
  f[0] = base /\ \A k \in 1 .. n : f[k] = step[<<k, f[k - 1]>>]

\* Such an f exists.
LEMMA RecursionTo ==
  ASSUME NEW n \in Nat, NEW V, NEW base \in V, NEW step,
         \A k \in 1 .. n, v \in V : step[<<k, v>>] \in V
  PROVE  \E f \in [0 .. n -> V] : RecursTo(f, n, base, step)
<1> DEFINE more == [x \in Nat \X V |-> IF x[1] + 1 \in 1 .. n THEN step[<<x[1] + 1, x[2]>>]
                                                             ELSE base]
<1>1. \A k \in Nat, v \in V :
         more[<<k, v>>] = IF k + 1 \in 1 .. n THEN step[<<k + 1, v>>] ELSE base
  OBVIOUS
<1> HIDE DEF more
<1>2. \A k \in Nat, v \in V : more[<<k, v>>] \in V
  BY <1>1
<1>3. PICK g \in [Nat -> V] : g[0] = base /\ \A k \in Nat : g[k + 1] = more[<<k, g[k]>>]
  <2>1. \E g \in [Nat -> V] : Recurs(g, base, more)
    BY <1>2, RecursionExists
  <2> QED
    BY <2>1 DEF Recurs
<1> DEFINE f == [k \in 0 .. n |-> g[k]]
<1>4. ASSUME NEW k \in 1 .. n PROVE f[k] = step[<<k, f[k - 1]>>]
  <2>1. k - 1 \in 0 .. n /\ k - 1 \in Nat /\ (k - 1) + 1 = k /\ k \in 0 .. n
    OBVIOUS
  <2>2. g[k] = more[<<k - 1, g[k - 1]>>] /\ g[k - 1] \in V
    BY <2>1, <1>3
  <2>3. g[k] = step[<<k, g[k - 1]>>]
    BY <2>1, <2>2, <1>1
  <2> QED
    BY <2>1, <2>3
<1>5. f \in [0 .. n -> V] /\ f[0] = base
  BY <1>3
<1> HIDE DEF f
<1>6. RecursTo(f, n, base, step)
  BY <1>4, <1>5 DEF RecursTo
<1> QED
  BY <1>5, <1>6
=============================================================================
