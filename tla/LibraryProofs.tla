---------------------------- MODULE LibraryProofs ----------------------------
(***************************************************************************)
(* Proofs about the parts of the library that one caller uses on its own:  *)
(* states and upcasters, subject schemes, read options and queries.  What  *)
(* they answer is proved for every input, of any length; what callers hold *)
(* of a state, for every set of setups, logs and calls.                    *)
(***************************************************************************)
EXTENDS MCLibrary, FiniteSetTheorems, SequenceTheorems, TLAPS

-----------------------------------------------------------------------------
(***************************************************************************)
(* Loops.  The induction theorems of the library are for operators; these  *)
(* are for sets, and follow from the least element of a set of numbers.    *)
(***************************************************************************)
LEMMA LeastElement ==
    ASSUME NEW T \in SUBSET Nat, T # {}
    PROVE  \E x \in T : \A y \in T : x <= y
<1> DEFINE R == OpToRel(<, Nat)
<1>1. IsWellFoundedOn(R, Nat)
  BY NatLessThanWellFounded
<1>2. \A x, y \in Nat : x < y => <<x, y>> \in R
  BY DEF OpToRel
<1> HIDE DEF R
<1>3. PICK x \in T : \A y \in T : ~(<<y, x>> \in R)
  BY <1>1, WFMin, Zenon
<1>4. \A y \in T : ~(y < x)
  <2> SUFFICES ASSUME NEW y \in T, y < x
               PROVE  FALSE
    OBVIOUS
  <2>1. x \in Nat /\ y \in Nat
    OBVIOUS
  <2>2. <<y, x>> \in R
    BY <1>2, <2>1
  <2> QED
    BY <1>3, <2>2
<1>5. \A y \in T : x <= y
  BY <1>4
<1> QED
  BY <1>5

LEMMA Induct ==
    ASSUME NEW S, 0 \in S, \A n \in Nat : n \in S => n + 1 \in S
    PROVE  \A n \in Nat : n \in S
<1> SUFFICES ASSUME Nat \ S # {}
             PROVE  FALSE
  OBVIOUS
<1>1. PICK x \in Nat \ S : \A y \in Nat \ S : x <= y
  BY LeastElement
<1>2. x # 0 /\ x - 1 \in Nat /\ x - 1 \notin Nat \ S
  BY <1>1
<1> QED
  BY <1>1, <1>2

\* A loop of N steps that stays within V.
Loop(V, a, N, G, f) ==
    /\ f \in [0 .. N -> V]
    /\ f[0] = a
    /\ \A n \in 1 .. N : f[n] = G[n][f[n - 1]]

LEMMA LoopExists ==
    ASSUME NEW V, NEW a \in V, NEW N \in Nat, NEW G \in [1 .. N -> [V -> V]]
    PROVE  \E f : Loop(V, a, N, G, f)
<1> DEFINE S == {m \in Nat : m <= N => \E f : Loop(V, a, m, G, f)}
<1>1. 0 \in S
  <2> DEFINE f == [n \in 0 .. 0 |-> a]
  <2>1. Loop(V, a, 0, G, f)
    BY DEF Loop
  <2> HIDE DEF f
  <2> QED
    BY <2>1
<1>2. ASSUME NEW m \in Nat, m \in S
      PROVE  m + 1 \in S
  <2> SUFFICES ASSUME m + 1 <= N
               PROVE  \E f : Loop(V, a, m + 1, G, f)
    OBVIOUS
  <2>1. PICK f : Loop(V, a, m, G, f)
    BY <1>2
  <2> DEFINE x == G[m + 1][f[m]]
             h == [n \in 0 .. m + 1 |-> IF n = m + 1 THEN x ELSE f[n]]
  <2>2. f \in [0 .. m -> V] /\ f[0] = a /\ \A n \in 1 .. m : f[n] = G[n][f[n - 1]]
    BY <2>1 DEF Loop
  <2>3. x \in V
    <3>1. f[m] \in V /\ m + 1 \in 1 .. N
      BY <2>2
    <3>2. G[m + 1] \in [V -> V]
      BY <3>1
    <3> QED
      BY <3>1, <3>2
  <2>4. h \in [0 .. m + 1 -> V]
    BY <2>2, <2>3
  <2>5. /\ h[0] = a /\ h[m + 1] = x
        /\ \A n \in 0 .. m : h[n] = f[n]
    BY <2>2
  <2>6. \A n \in 1 .. m + 1 : h[n] = G[n][h[n - 1]]
    <3> SUFFICES ASSUME NEW n \in 1 .. m + 1
                 PROVE  h[n] = G[n][h[n - 1]]
      OBVIOUS
    <3>1. n \in 1 .. m \/ n = m + 1
      OBVIOUS
    <3>2. n - 1 \in 0 .. m /\ h[n - 1] = f[n - 1]
      BY <2>5
    <3> HIDE DEF h
    <3> QED
      BY <2>2, <2>5, <3>1, <3>2
  <2>7. Loop(V, a, m + 1, G, h)
    BY <2>4, <2>5, <2>6 DEF Loop
  <2> QED
    BY <2>7
<1>3. N \in S
  <2> HIDE DEF S
  <2> QED
    BY <1>1, <1>2, Induct
<1> QED
  BY <1>3

\* What is closed under the steps of a loop, as its recursion defines it.
LEMMA IsLoop ==
    ASSUME NEW V, NEW a \in V, NEW N \in Nat, NEW G \in [1 .. N -> [V -> V]],
           NEW r, r = [n \in 0 .. N |-> r[n]], r[0] = a,
           \A n \in 1 .. N : r[n - 1] \in V => r[n] = G[n][r[n - 1]]
    PROVE  Loop(V, a, N, G, r)
<1> DEFINE S == {n \in Nat : n <= N => r[n] \in V}
<1>1. 0 \in S
  OBVIOUS
<1>2. ASSUME NEW n \in Nat, n \in S
      PROVE  n + 1 \in S
  <2> SUFFICES ASSUME n + 1 <= N
               PROVE  r[n + 1] \in V
    OBVIOUS
  <2>1. n + 1 \in 1 .. N /\ (n + 1) - 1 = n /\ r[n] \in V
    BY <1>2
  <2>2. r[n + 1] = G[n + 1][r[n]]
    BY <2>1
  <2>3. G[n + 1] \in [V -> V]
    BY <2>1
  <2> QED
    BY <2>1, <2>2, <2>3
<1>3. \A n \in Nat : n \in S
  <2> HIDE DEF S
  <2> QED
    BY <1>1, <1>2, Induct
<1>4. \A n \in 0 .. N : r[n] \in V
  BY <1>3
<1>5. r \in [0 .. N -> V]
  BY <1>4
<1>6. \A n \in 1 .. N : n - 1 \in 0 .. N
  OBVIOUS
<1>7. \A n \in 1 .. N : r[n] = G[n][r[n - 1]]
  BY <1>4, <1>6
<1> QED
  BY <1>5, <1>7 DEF Loop

-----------------------------------------------------------------------------
(***************************************************************************)
(* Folds.  F has for every event type what it makes of a value.            *)
(***************************************************************************)
StepsOf(F, s) == [n \in 1 .. Len(s) |-> F[s[n]]]

Yields(V, F, a, s, b) == \E f : Loop(V, a, Len(s), StepsOf(F, s), f) /\ b = f[Len(s)]

LEMMA StepsAre ==
    ASSUME NEW F, NEW s \in Seq(Types)
    PROVE  /\ Len(s) \in Nat
           /\ \A n \in 1 .. Len(s) : s[n] \in Types /\ StepsOf(F, s)[n] = F[s[n]]
BY DEF StepsOf

LEMMA StepsType ==
    ASSUME NEW V, NEW F \in [Types -> [V -> V]], NEW s \in Seq(Types)
    PROVE  StepsOf(F, s) \in [1 .. Len(s) -> [V -> V]]
<1>1. \A n \in 1 .. Len(s) : s[n] \in Types
  OBVIOUS
<1>2. \A n \in 1 .. Len(s) : F[s[n]] \in [V -> V]
  BY <1>1
<1> QED
  BY <1>2 DEF StepsOf

\* Two folds over the same events stay in a relation that every event keeps.
LEMMA YieldAlike ==
    ASSUME NEW s \in Seq(Types),
           NEW V, NEW F \in [Types -> [V -> V]], NEW a, NEW b, Yields(V, F, a, s, b),
           NEW W, NEW G \in [Types -> [W -> W]], NEW c, NEW d, Yields(W, G, c, s, d),
           NEW R, <<a, c>> \in R,
           \A x \in V, y \in W, t \in Types : <<x, y>> \in R => <<F[t][x], G[t][y]>> \in R
    PROVE  <<b, d>> \in R
<1>1. PICK f : Loop(V, a, Len(s), StepsOf(F, s), f) /\ b = f[Len(s)]
  BY DEF Yields
<1>2. PICK g : Loop(W, c, Len(s), StepsOf(G, s), g) /\ d = g[Len(s)]
  BY DEF Yields
<1>3. /\ Len(s) \in Nat
      /\ \A n \in 1 .. Len(s) : /\ s[n] \in Types /\ StepsOf(F, s)[n] = F[s[n]]
                                /\ StepsOf(G, s)[n] = G[s[n]]
  BY StepsAre
<1>4. /\ f \in [0 .. Len(s) -> V] /\ f[0] = a
      /\ \A n \in 1 .. Len(s) : f[n] = F[s[n]][f[n - 1]]
  BY <1>1, <1>3 DEF Loop
<1>5. /\ g \in [0 .. Len(s) -> W] /\ g[0] = c
      /\ \A n \in 1 .. Len(s) : g[n] = G[s[n]][g[n - 1]]
  BY <1>2, <1>3 DEF Loop
<1> DEFINE S == {n \in Nat : n <= Len(s) => <<f[n], g[n]>> \in R}
<1>6. 0 \in S
  BY <1>4, <1>5
<1>7. ASSUME NEW n \in Nat, n \in S
      PROVE  n + 1 \in S
  <2> SUFFICES ASSUME n + 1 <= Len(s)
               PROVE  <<f[n + 1], g[n + 1]>> \in R
    OBVIOUS
  <2>1. n \in 0 .. Len(s) /\ n + 1 \in 1 .. Len(s) /\ (n + 1) - 1 = n /\ <<f[n], g[n]>> \in R
    BY <1>3, <1>7
  <2>2. f[n] \in V /\ g[n] \in W /\ s[n + 1] \in Types
    BY <1>3, <1>4, <1>5, <2>1
  <2>3. f[n + 1] = F[s[n + 1]][f[n]] /\ g[n + 1] = G[s[n + 1]][g[n]]
    BY <1>4, <1>5, <2>1
  <2> QED
    BY <2>1, <2>2, <2>3
<1>8. \A n \in Nat : n \in S
  <2> HIDE DEF S
  <2> QED
    BY <1>6, <1>7, Induct
<1> QED
  BY <1>1, <1>2, <1>3, <1>8

\* Events lead to one value.
LEMMA YieldsOnce ==
    ASSUME NEW V, NEW F \in [Types -> [V -> V]], NEW s \in Seq(Types),
           NEW a, NEW b, Yields(V, F, a, s, b), NEW c, Yields(V, F, a, s, c)
    PROVE  b = c
<1> DEFINE R == {p \in V \X V : p[1] = p[2]}
<1>1. a \in V
  <2>1. PICK f : Loop(V, a, Len(s), StepsOf(F, s), f)
    BY DEF Yields
  <2>2. f \in [0 .. Len(s) -> V] /\ f[0] = a
    BY <2>1 DEF Loop
  <2>3. 0 \in 0 .. Len(s)
    OBVIOUS
  <2> QED
    BY <2>2, <2>3
<1>2. <<a, a>> \in R
  BY <1>1
<1>3. ASSUME NEW x \in V, NEW y \in V, NEW t \in Types, <<x, y>> \in R
      PROVE  <<F[t][x], F[t][y]>> \in R
  BY <1>3
<1>4. <<b, c>> \in R
  <2> HIDE DEF R
  <2> QED
    BY <1>2, <1>3, YieldAlike
<1> QED
  BY <1>4

\* A fold can be split anywhere.
LEMMA YieldsOn ==
    ASSUME NEW V, NEW F \in [Types -> [V -> V]], NEW s \in Seq(Types),
           NEW n \in 0 .. Len(s), NEW k \in 0 .. n,
           NEW a, NEW b, Yields(V, F, a, SubSeq(s, 1, k), b),
           NEW c, Yields(V, F, b, SubSeq(s, k + 1, n), c)
    PROVE  Yields(V, F, a, SubSeq(s, 1, n), c)
<1>1. /\ Len(s) \in Nat /\ n \in Nat /\ k \in Nat /\ k <= n /\ n <= Len(s)
      /\ \A i \in 1 .. Len(s) : s[i] \in Types
  OBVIOUS
<1> DEFINE p == SubSeq(s, 1, k)
           q == SubSeq(s, k + 1, n)
           u == SubSeq(s, 1, n)
<1>2. p \in Seq(Types) /\ Len(p) = k /\ \A i \in 1 .. k : p[i] = s[i]
  BY <1>1
<1>3. q \in Seq(Types) /\ Len(q) = n - k /\ \A i \in 1 .. n - k : q[i] = s[k + i]
  BY <1>1
<1>4. u \in Seq(Types) /\ Len(u) = n /\ \A i \in 1 .. n : u[i] = s[i]
  BY <1>1
<1>y. Yields(V, F, a, p, b) /\ Yields(V, F, b, q, c)
  OBVIOUS
<1>z. Yields(V, F, a, u, c) => Yields(V, F, a, SubSeq(s, 1, n), c)
  OBVIOUS
<1> HIDE DEF p, q, u
<1>5. PICK f : Loop(V, a, k, StepsOf(F, p), f) /\ b = f[k]
  BY <1>2, <1>y DEF Yields
<1>6. PICK g : Loop(V, b, n - k, StepsOf(F, q), g) /\ c = g[n - k]
  BY <1>3, <1>y DEF Yields
<1>7. /\ f \in [0 .. k -> V] /\ f[0] = a /\ f[k] = b
      /\ \A i \in 1 .. k : f[i] = F[s[i]][f[i - 1]]
  <2>1. \A i \in 1 .. k : StepsOf(F, p)[i] = F[s[i]]
    BY <1>2, StepsAre
  <2> QED
    BY <1>5, <2>1 DEF Loop
<1>8. /\ g \in [0 .. n - k -> V] /\ g[0] = b
      /\ \A i \in 1 .. n - k : g[i] = F[s[k + i]][g[i - 1]]
  <2>1. \A i \in 1 .. Len(q) : StepsOf(F, q)[i] = F[q[i]]
    BY <1>3, StepsAre
  <2>2. \A i \in 1 .. n - k : StepsOf(F, q)[i] = F[s[k + i]]
    BY <1>3, <2>1
  <2> QED
    BY <1>6, <2>2 DEF Loop
<1> DEFINE h == [i \in 0 .. n |-> IF i <= k THEN f[i] ELSE g[i - k]]
<1>9. /\ \A i \in 0 .. k : h[i] = f[i]
      /\ \A i \in 0 .. n - k : h[k + i] = g[i]
  BY <1>1, <1>7, <1>8
<1>10. \A i \in 0 .. n : i \in 0 .. k \/ (i - k \in 1 .. n - k /\ i - k \in 0 .. n - k /\ i = k + (i - k))
  BY <1>1
<1>11. h \in [0 .. n -> V]
  <2>1. \A i \in 0 .. n : h[i] \in V
    <3> HIDE DEF h
    <3>1. \A i \in 0 .. k : h[i] \in V
      BY <1>7, <1>9
    <3>2. \A i \in 0 .. n - k : h[k + i] \in V
      BY <1>8, <1>9
    <3> QED
      BY <1>10, <3>1, <3>2
  <2> QED
    BY <2>1
<1>12. h[0] = a /\ h[n] = c
  <2>1. 0 \in 0 .. k /\ n - k \in 0 .. n - k /\ k + (n - k) = n
    BY <1>1
  <2> HIDE DEF h
  <2> QED
    BY <1>6, <1>7, <1>9, <2>1
<1>13. ASSUME NEW i \in 1 .. n
       PROVE  h[i] = F[s[i]][h[i - 1]]
  <2> HIDE DEF h
  <2>1. CASE i <= k
    <3>1. i \in 1 .. k /\ i \in 0 .. k /\ i - 1 \in 0 .. k
      BY <1>1, <2>1
    <3> QED
      BY <1>7, <1>9, <3>1
  <2>2. CASE ~(i <= k)
    <3> DEFINE j == i - k
    <3>1. j \in 1 .. n - k /\ j \in 0 .. n - k /\ j - 1 \in 0 .. n - k /\ k + j = i /\ k + (j - 1) = i - 1
      BY <1>1, <2>2
    <3> HIDE DEF j
    <3>2. h[k + j] = g[j] /\ h[k + (j - 1)] = g[j - 1]
      BY <1>9, <3>1
    <3>3. g[j] = F[s[k + j]][g[j - 1]]
      BY <1>8, <3>1
    <3> QED
      BY <3>1, <3>2, <3>3
  <2> QED
    BY <2>1, <2>2
<1> HIDE DEF h
<1>14. \A i \in 1 .. n : StepsOf(F, u)[i] = F[s[i]]
  BY <1>4, StepsAre
<1>15. Loop(V, a, n, StepsOf(F, u), h)
  BY <1>11, <1>12, <1>13, <1>14 DEF Loop
<1> QED
  BY <1>4, <1>12, <1>15, <1>z DEF Yields

\* An event that makes the same of every value makes the same of what follows.
LEMMA YieldsReset ==
    ASSUME NEW V, NEW F \in [Types -> [V -> V]], NEW s \in Seq(Types), s # <<>>,
           \A x, y \in V : F[s[1]][x] = F[s[1]][y],
           NEW a, NEW b, Yields(V, F, a, s, b), NEW c, NEW d, Yields(V, F, c, s, d)
    PROVE  b = d
<1>1. PICK f : Loop(V, a, Len(s), StepsOf(F, s), f) /\ b = f[Len(s)]
  BY DEF Yields
<1>2. PICK g : Loop(V, c, Len(s), StepsOf(F, s), g) /\ d = g[Len(s)]
  BY DEF Yields
<1>3. /\ Len(s) \in Nat /\ Len(s) > 0
      /\ \A n \in 1 .. Len(s) : s[n] \in Types /\ StepsOf(F, s)[n] = F[s[n]]
  BY StepsAre
<1>4. /\ f \in [0 .. Len(s) -> V] /\ \A n \in 1 .. Len(s) : f[n] = F[s[n]][f[n - 1]]
      /\ g \in [0 .. Len(s) -> V] /\ \A n \in 1 .. Len(s) : g[n] = F[s[n]][g[n - 1]]
  BY <1>1, <1>2, <1>3 DEF Loop
<1> DEFINE S == {n \in Nat : n < Len(s) => f[n + 1] = g[n + 1]}
<1>5. 0 \in S
  <2>1. 0 \in 0 .. Len(s) /\ 1 \in 1 .. Len(s) /\ 1 - 1 = 0 /\ 0 + 1 = 1
    BY <1>3
  <2>2. f[0] \in V /\ g[0] \in V
    BY <1>4, <2>1
  <2>3. f[1] = F[s[1]][f[0]] /\ g[1] = F[s[1]][g[0]]
    BY <1>4, <2>1
  <2>4. f[1] = g[1]
    BY <2>2, <2>3
  <2> QED
    BY <2>1, <2>4
<1>6. ASSUME NEW n \in Nat, n \in S
      PROVE  n + 1 \in S
  <2> SUFFICES ASSUME n + 1 < Len(s)
               PROVE  f[(n + 1) + 1] = g[(n + 1) + 1]
    OBVIOUS
  <2>1. (n + 1) + 1 \in 1 .. Len(s) /\ ((n + 1) + 1) - 1 = n + 1 /\ f[n + 1] = g[n + 1]
    BY <1>3, <1>6
  <2> QED
    BY <1>4, <2>1
<1>7. \A n \in Nat : n \in S
  <2> HIDE DEF S
  <2> QED
    BY <1>5, <1>6, Induct
<1>8. Len(s) - 1 \in Nat /\ Len(s) - 1 < Len(s) /\ (Len(s) - 1) + 1 = Len(s)
  BY <1>3
<1>9. f[(Len(s) - 1) + 1] = g[(Len(s) - 1) + 1]
  BY <1>7, <1>8
<1> QED
  BY <1>1, <1>2, <1>8, <1>9

\* A loop over the steps of a fold, spelled out.
Unrolled(V, F, a, s, f) ==
    /\ f = [n \in 0 .. Len(s) |-> IF n = 0 THEN a ELSE F[s[n]][f[n - 1]]]
    /\ \A n \in 1 .. Len(s) : f[n - 1] \in V

LEMMA FoldLoop ==
    ASSUME NEW V, NEW F \in [Types -> [V -> V]], NEW a \in V, NEW s \in Seq(Types)
    PROVE  \E f : Unrolled(V, F, a, s, f)
<1>0. Len(s) \in Nat
  OBVIOUS
<1>1. StepsOf(F, s) \in [1 .. Len(s) -> [V -> V]]
  BY StepsType
<1>2. PICK f : Loop(V, a, Len(s), StepsOf(F, s), f)
  BY <1>0, <1>1, LoopExists
<1>3. /\ f \in [0 .. Len(s) -> V] /\ f[0] = a
      /\ \A n \in 1 .. Len(s) : f[n] = F[s[n]][f[n - 1]]
  BY <1>2, StepsAre DEF Loop
<1>4. /\ \A n \in 0 .. Len(s) : n = 0 \/ n \in 1 .. Len(s)
      /\ \A n \in 1 .. Len(s) : n - 1 \in 0 .. Len(s)
  BY <1>0
<1>5. \A n \in 1 .. Len(s) : f[n - 1] \in V
  BY <1>3, <1>4
<1>6. f = [n \in 0 .. Len(s) |-> IF n = 0 THEN a ELSE F[s[n]][f[n - 1]]]
  BY <1>3, <1>4
<1> QED
  BY <1>5, <1>6 DEF Unrolled

\* A function that follows the recursion of a fold is a loop.
LEMMA FoldYields ==
    ASSUME NEW V, NEW F \in [Types -> [V -> V]], NEW a \in V, NEW s \in Seq(Types),
           NEW r, r = [n \in 0 .. Len(s) |-> r[n]], r[0] = a,
           \A n \in 1 .. Len(s) : r[n - 1] \in V => r[n] = F[s[n]][r[n - 1]]
    PROVE  Yields(V, F, a, s, r[Len(s)])
<1>0. Len(s) \in Nat
  OBVIOUS
<1>1. StepsOf(F, s) \in [1 .. Len(s) -> [V -> V]]
  BY StepsType
<1>2. \A n \in 1 .. Len(s) : StepsOf(F, s)[n] = F[s[n]]
  BY StepsAre
<1>3. Loop(V, a, Len(s), StepsOf(F, s), r)
  BY <1>0, <1>1, <1>2, IsLoop
<1> QED
  BY <1>3 DEF Yields

-----------------------------------------------------------------------------
(***************************************************************************)
(* Upcasting.                                                              *)
(***************************************************************************)
\* FlattenSeq appends one sequence after the other.
LEMMA FlattenSteps ==
    ASSUME NEW S, NEW ss \in Seq(Seq(S)), Len(ss) # 0
    PROVE  \E r : /\ r[1] = ss[1] /\ FlattenSeq(ss) = r[Len(ss)]
                 /\ \A n \in Nat : n > 0 /\ n < Len(ss) => r[n + 1] = r[n] \o ss[n + 1]
<1> DEFINE N == Len(ss) - 1
           V == Seq(S)
           G == [n \in 1 .. N |-> [x \in V |-> x \o ss[n + 1]]]
           E(r) == [i \in 1 .. Len(ss) |-> IF i = 1 THEN ss[i] ELSE r[i - 1] \o ss[i]]
<1>1. N \in Nat /\ Len(ss) = N + 1 /\ \A i \in 1 .. N + 1 : ss[i] \in V
  OBVIOUS
<1>2. FlattenSeq(ss) = (CHOOSE r : r = E(r))[N + 1]
  BY <1>1 DEF FlattenSeq
<1>3. \A n \in 1 .. N, x \in V : x \o ss[n + 1] \in V
  <2> SUFFICES ASSUME NEW n \in 1 .. N, NEW x \in V
               PROVE  x \o ss[n + 1] \in V
    OBVIOUS
  <2>1. n + 1 \in 1 .. N + 1
    BY <1>1
  <2>2. ss[n + 1] \in V
    BY <1>1, <2>1
  <2> QED
    BY <2>2
<1>4. G \in [1 .. N -> [V -> V]]
  BY <1>3
<1>5. ss[1] \in V
  BY <1>1
<1>6. PICK f : Loop(V, ss[1], N, G, f)
  <2> HIDE DEF G, N, V
  <2> QED
    BY <1>1, <1>4, <1>5, LoopExists
<1>7. /\ f \in [0 .. N -> V] /\ f[0] = ss[1]
      /\ \A n \in 1 .. N : f[n] = f[n - 1] \o ss[n + 1]
  <2>1. f \in [0 .. N -> V] /\ f[0] = ss[1] /\ \A n \in 1 .. N : f[n] = G[n][f[n - 1]]
    BY <1>6 DEF Loop
  <2>2. \A n \in 1 .. N : n - 1 \in 0 .. N
    BY <1>1
  <2>3. \A n \in 1 .. N : f[n - 1] \in V
    <3> HIDE DEF N, V, G
    <3> QED
      BY <2>1, <2>2
  <2> QED
    BY <2>1, <2>3
<1> DEFINE g == [i \in 1 .. N + 1 |-> f[i - 1]]
<1> HIDE DEF N, V, G
<1>8. g = E(g)
  <2>1. \A i \in 1 .. N + 1 : i # 1 => /\ i - 1 \in 1 .. N + 1 /\ i - 1 \in 1 .. N
                                       /\ (i - 1) + 1 = i /\ g[i - 1] = f[(i - 1) - 1]
    BY <1>1
  <2>2. \A i \in 1 .. N + 1 : i # 1 => f[i - 1] = f[(i - 1) - 1] \o ss[i]
    BY <1>7, <2>1
  <2>3. \A i \in 1 .. N + 1 : g[i] = IF i = 1 THEN ss[i] ELSE g[i - 1] \o ss[i]
    <3> SUFFICES ASSUME NEW i \in 1 .. N + 1
                 PROVE  g[i] = IF i = 1 THEN ss[i] ELSE g[i - 1] \o ss[i]
      OBVIOUS
    <3>1. g[i] = f[i - 1]
      OBVIOUS
    <3>2. CASE i = 1
      BY <1>7, <3>1, <3>2
    <3>3. CASE i # 1
      <4> HIDE DEF g
      <4> QED
        BY <2>1, <2>2, <3>1, <3>3
    <3> QED
      BY <3>2, <3>3
  <2> QED
    BY <1>1, <2>3
<1>9. PICK r : r = E(r) /\ FlattenSeq(ss) = r[N + 1]
  <2> HIDE DEF E, g
  <2> QED
    BY <1>2, <1>8
<1>10. r[1] = ss[1]
  BY <1>1, <1>9
<1>11. ASSUME NEW n \in Nat, n > 0, n < Len(ss)
       PROVE  r[n + 1] = r[n] \o ss[n + 1]
  <2>1. n + 1 \in 1 .. Len(ss) /\ n + 1 # 1 /\ (n + 1) - 1 = n
    BY <1>1, <1>11
  <2> QED
    BY <1>9, <2>1
<1> QED
  BY <1>1, <1>9, <1>10, <1>11

LEMMA FlattenType ==
    ASSUME NEW S, NEW ss \in Seq(Seq(S))
    PROVE  FlattenSeq(ss) \in Seq(S)
<1>1. CASE Len(ss) = 0
  BY <1>1 DEF FlattenSeq
<1>2. CASE Len(ss) # 0
  <2>1. PICK r : /\ r[1] = ss[1] /\ FlattenSeq(ss) = r[Len(ss)]
                 /\ \A n \in Nat : n > 0 /\ n < Len(ss) => r[n + 1] = r[n] \o ss[n + 1]
    BY <1>2, FlattenSteps
  <2>2. Len(ss) \in Nat /\ \A i \in 1 .. Len(ss) : ss[i] \in Seq(S)
    OBVIOUS
  <2> DEFINE T == {n \in Nat : n > 0 /\ n <= Len(ss) => r[n] \in Seq(S)}
  <2>3. 0 \in T
    OBVIOUS
  <2>4. ASSUME NEW n \in Nat, n \in T
        PROVE  n + 1 \in T
    <3> SUFFICES ASSUME n + 1 <= Len(ss)
                 PROVE  r[n + 1] \in Seq(S)
      OBVIOUS
    <3>1. n + 1 \in 1 .. Len(ss)
      BY <2>2
    <3>2. CASE n = 0
      BY <2>1, <2>2, <3>1, <3>2
    <3>3. CASE n # 0
      <4>1. n > 0 /\ n < Len(ss) /\ r[n] \in Seq(S)
        BY <2>2, <2>4, <3>3
      <4>2. r[n + 1] = r[n] \o ss[n + 1] /\ ss[n + 1] \in Seq(S)
        BY <2>1, <2>2, <3>1, <4>1
      <4> QED
        BY <4>1, <4>2
    <3> QED
      BY <3>2, <3>3
  <2>5. \A n \in Nat : n \in T
    <3> HIDE DEF T
    <3> QED
      BY <2>3, <2>4, Induct
  <2>6. Len(ss) > 0
    BY <1>2, <2>2
  <2> QED
    BY <2>1, <2>2, <2>5, <2>6
<1> QED
  BY <1>1, <1>2

Outcomes == [ok : BOOLEAN, types : Seq(Types)]

\* What is made of an event type with what is made of others with less budget.
Further(less, t) == [k \in DOMAIN setup.upcasters[t] |-> less[setup.upcasters[t][k]]]

NoOutcome == [ok |-> FALSE, types |-> <<>>]

UpcastWith(budget, less, t) ==
    IF ~HasUpcaster(t) THEN [ok |-> TRUE, types |-> <<t>>]
    ELSE IF budget <= 0 \/ setup.upcasters[t] = FailingUpcast THEN NoOutcome
    ELSE IF \A k \in DOMAIN Further(less, t) : Further(less, t)[k].ok
         THEN [ok |-> TRUE,
               types |-> FlattenSeq([k \in DOMAIN Further(less, t) |-> Further(less, t)[k].types])]
         ELSE NoOutcome

\* Upcasting ends with a sequence of event types, whatever the budget.
LEMMA BudgetSteps ==
    ASSUME setup \in Setups, NEW n \in 0 .. MaxUpcastSteps
    PROVE  /\ applyWithBudget[n] \in [Types -> Outcomes]
           /\ \A t \in Types :
                 applyWithBudget[n][t] = UpcastWith(n, applyWithBudget[n - 1], t)
<1> DEFINE N == MaxUpcastSteps
           V == [Types -> Outcomes]
           failed == NoOutcome
           One(budget, x, u) == UpcastWith(budget, x, u)
           Up(budget, x) == [u \in Types |-> One(budget, x, u)]
           E(f) == [budget \in 0 .. N |-> Up(budget, f[budget - 1])]
           a == [u \in Types |-> IF ~HasUpcaster(u) THEN [ok |-> TRUE, types |-> <<u>>] ELSE failed]
           G == [i \in 1 .. N |-> [x \in V |-> Up(i, x)]]
<1>1. applyWithBudget = CHOOSE f : f = E(f)
  BY DEF applyWithBudget, upcastDownTo, UpcastWith, Further, NoOutcome
<1>2. N \in Nat
  BY StatesAssumption
<1>3. \A u \in Types : setup.upcasters[u] \in {NoUpcaster, FailingUpcast} \cup Seq(Types)
  BY StatesAssumption
<1>4. failed \in Outcomes /\ \A u \in Types : [ok |-> TRUE, types |-> <<u>>] \in Outcomes
  BY DEF Outcomes, NoOutcome
<1>5. ASSUME NEW b \in 1 .. N, NEW x \in V, NEW u \in Types
      PROVE  One(b, x, u) \in Outcomes
  <2>1. CASE ~HasUpcaster(u) \/ b <= 0 \/ setup.upcasters[u] = FailingUpcast
    BY <1>4, <2>1 DEF UpcastWith
  <2>2. CASE ~(~HasUpcaster(u) \/ b <= 0 \/ setup.upcasters[u] = FailingUpcast)
    <3> DEFINE ups == setup.upcasters[u]
               further == Further(x, u)
               ss == [k \in DOMAIN further |-> further[k].types]
    <3>1. ups \in Seq(Types)
      BY <1>3, <2>2 DEF HasUpcaster
    <3>2. DOMAIN ups = 1 .. Len(ups) /\ Len(ups) \in Nat /\ \A k \in DOMAIN ups : ups[k] \in Types
      BY <3>1
    <3>3. DOMAIN further = 1 .. Len(ups) /\ \A k \in DOMAIN further : further[k] \in Outcomes
      BY <3>2 DEF Further
    <3> HIDE DEF further
    <3>4. \A k \in DOMAIN further : further[k].types \in Seq(Types)
      BY <3>3 DEF Outcomes
    <3>5. ss \in Seq(Seq(Types))
      BY <3>2, <3>3, <3>4
    <3> HIDE DEF ss, ups
    <3>6. FlattenSeq(ss) \in Seq(Types)
      BY <3>5, FlattenType
    <3>7. [ok |-> TRUE, types |-> FlattenSeq(ss)] \in Outcomes
      BY <3>6 DEF Outcomes
    <3>8. One(b, x, u) = IF \A k \in DOMAIN further : further[k].ok
                         THEN [ok |-> TRUE, types |-> FlattenSeq(ss)] ELSE failed
      BY <2>2 DEF further, ss, UpcastWith
    <3> QED
      BY <1>4, <3>7, <3>8
  <2> QED
    BY <2>1, <2>2
<1> HIDE DEF One
<1>6. G \in [1 .. N -> [V -> V]]
  BY <1>5
<1>7. a \in V
  BY <1>4
<1>8. \A x : Up(0, x) = a
  BY DEF One, UpcastWith
<1>9. PICK f : Loop(V, a, N, G, f)
  <2> HIDE DEF G, V, a, N
  <2> QED
    BY <1>2, <1>6, <1>7, LoopExists
<1>10. f = E(f)
  <2> HIDE DEF Up, a, N
  <2>1. f \in [0 .. N -> V] /\ f[0] = a /\ \A i \in 1 .. N : f[i] = G[i][f[i - 1]]
    BY <1>9 DEF Loop
  <2>2. \A i \in 1 .. N : i - 1 \in 0 .. N
    BY <1>2
  <2>3. \A i \in 1 .. N : f[i - 1] \in V
    <3> HIDE DEF V, G
    <3> QED
      BY <2>1, <2>2
  <2>4. \A i \in 1 .. N : f[i] = Up(i, f[i - 1])
    BY <2>1, <2>3
  <2>5. \A i \in 0 .. N : i = 0 \/ i \in 1 .. N
    BY <1>2
  <2>6. \A i \in 0 .. N : f[i] = Up(i, f[i - 1])
    <3> HIDE DEF V, G
    <3> QED
      BY <1>8, <2>1, <2>4, <2>5
  <2> HIDE DEF V
  <2> QED
    BY <2>1, <2>6
<1>11. PICK r : r = E(r) /\ applyWithBudget = r
  <2> HIDE DEF E
  <2> QED
    BY <1>1, <1>10
<1>12. Loop(V, a, N, G, r)
  <2> HIDE DEF Up, a, N
  <2>0. DOMAIN r = 0 .. N /\ r = [i \in DOMAIN r |-> r[i]]
    BY <1>11
  <2>1. r = [i \in 0 .. N |-> r[i]] /\ \A i \in 0 .. N : r[i] = Up(i, r[i - 1])
    BY <1>11, <2>0
  <2>2. r[0] = a
    <3>1. 0 \in 0 .. N
      BY <1>2
    <3>2. r[0] = Up(0, r[0 - 1])
      BY <2>1, <3>1
    <3> QED
      BY <1>8, <3>2
  <2>3. ASSUME NEW i \in 1 .. N, r[i - 1] \in V
        PROVE  r[i] = G[i][r[i - 1]]
    <3>1. r[i] = Up(i, r[i - 1])
      <4>1. i \in 0 .. N
        BY <1>2
      <4> QED
        BY <2>1, <4>1
    <3>2. \A x \in V : G[i][x] = Up(i, x)
      OBVIOUS
    <3> QED
      BY <2>3, <3>1, <3>2
  <2> HIDE DEF V, G
  <2> QED
    BY <1>2, <1>6, <1>7, <2>1, <2>2, <2>3, IsLoop
<1>13. r[n] \in V
  <2> HIDE DEF V, G, a, N
  <2> QED
    BY <1>2, <1>12 DEF Loop, N
<1>14. r[n] = Up(n, r[n - 1])
  BY <1>11
<1>15. \A t \in Types : Up(n, r[n - 1])[t] = UpcastWith(n, r[n - 1], t)
  BY DEF One
<1> QED
  BY <1>11, <1>13, <1>14, <1>15

\* Upcasting leaves an event without an upcaster alone.
LEMMA ApplyType ==
    ASSUME setup \in Setups, NEW t \in Types
    PROVE  /\ apply(t) \in Outcomes
           /\ ~HasUpcaster(t) => apply(t) = [ok |-> TRUE, types |-> <<t>>]
<1>1. MaxUpcastSteps \in 0 .. MaxUpcastSteps
  BY StatesAssumption
<1> DEFINE r == applyWithBudget[MaxUpcastSteps]
<1>2. r \in [Types -> Outcomes] /\ r[t] = UpcastWith(MaxUpcastSteps, applyWithBudget[MaxUpcastSteps - 1], t)
  BY <1>1, BudgetSteps
<1>3. apply(t) = r[t]
  BY DEF apply
<1> HIDE DEF r
<1> QED
  BY <1>2, <1>3 DEF UpcastWith

LEMMA YieldsType ==
    ASSUME NEW V, NEW F, NEW s \in Seq(Types), NEW a, NEW b, Yields(V, F, a, s, b)
    PROVE  a \in V /\ b \in V
<1>1. PICK f : Loop(V, a, Len(s), StepsOf(F, s), f) /\ b = f[Len(s)]
  BY DEF Yields
<1>2. f \in [0 .. Len(s) -> V] /\ f[0] = a
  BY <1>1 DEF Loop
<1>3. 0 \in 0 .. Len(s) /\ Len(s) \in 0 .. Len(s)
  OBVIOUS
<1> QED
  BY <1>1, <1>2, <1>3

-----------------------------------------------------------------------------
(***************************************************************************)
(* What the events of a history are meant to lead to.                      *)
(***************************************************************************)
Data == Seq(Types)

EvolvedF == [t \in Types |-> [d \in Data |-> Evolved(d, t)]]

StoredF == [t \in Types |-> [d \in Data |-> EvolvedStored(d, t)]]

LEMMA EvolvedType ==
    /\ \A d \in Data, t \in Types : Evolved(d, t) \in Data
    /\ EvolvedF \in [Types -> [Data -> Data]]
<1>1. \A d \in Data, t \in Types : Evolved(d, t) \in Data
  BY DEF Evolved, Data
<1> QED
  BY <1>1 DEF EvolvedF

LEMMA FoldEvolved ==
    ASSUME NEW d \in Data, NEW s \in Seq(Types)
    PROVE  Yields(Data, EvolvedF, d, s, Folded(Evolved, d, s))
<1> DEFINE E(f) == [n \in 0 .. Len(s) |-> IF n = 0 THEN d ELSE Evolved(f[n - 1], s[n])]
<1>1. EvolvedF \in [Types -> [Data -> Data]]
  BY EvolvedType
<1>2. Folded(Evolved, d, s) = (CHOOSE r : r = E(r))[Len(s)]
  BY DEF Folded
<1>u. PICK f : Unrolled(Data, EvolvedF, d, s, f)
  BY <1>1, FoldLoop
<1>3. /\ f = [n \in 0 .. Len(s) |-> IF n = 0 THEN d ELSE EvolvedF[s[n]][f[n - 1]]]
      /\ \A n \in 1 .. Len(s) : f[n - 1] \in Data
  BY <1>u DEF Unrolled
<1>4. Len(s) \in Nat /\ \A n \in 1 .. Len(s), x \in Data : EvolvedF[s[n]][x] = Evolved(x, s[n])
  BY DEF EvolvedF
<1>5. f = E(f)
  <2>1. \A n \in 0 .. Len(s) : n # 0 => EvolvedF[s[n]][f[n - 1]] = Evolved(f[n - 1], s[n])
    BY <1>3, <1>4
  <2> QED
    BY <1>3, <2>1
<1>6. PICK r : r = E(r) /\ Folded(Evolved, d, s) = r[Len(s)]
  <2> HIDE DEF E
  <2> QED
    BY <1>2, <1>5
<1>7. r = [n \in 0 .. Len(s) |-> r[n]] /\ r[0] = d
  BY <1>4, <1>6
<1>8. \A n \in 1 .. Len(s) : r[n] = Evolved(r[n - 1], s[n])
  BY <1>4, <1>6
<1> HIDE DEF E
<1>9. Yields(Data, EvolvedF, d, s, r[Len(s)])
  BY <1>1, <1>4, <1>7, <1>8, FoldYields
<1> QED
  BY <1>6, <1>9

LEMMA StoredType ==
    ASSUME setup \in Setups
    PROVE  /\ \A d \in Data, t \in Types : EvolvedStored(d, t) \in Data
           /\ StoredF \in [Types -> [Data -> Data]]
<1>1. ASSUME NEW d \in Data, NEW t \in Types
      PROVE  EvolvedStored(d, t) \in Data
  <2>1. apply(t).types \in Seq(Types)
    BY ApplyType DEF Outcomes
  <2>2. Yields(Data, EvolvedF, d, apply(t).types, EvolvedStored(d, t))
    BY <2>1, FoldEvolved DEF EvolvedStored
  <2> QED
    BY <2>1, <2>2, YieldsType
<1> QED
  BY <1>1 DEF StoredF

LEMMA FoldStored ==
    ASSUME setup \in Setups, NEW d \in Data, NEW s \in Seq(Types)
    PROVE  Yields(Data, StoredF, d, s, Folded(EvolvedStored, d, s))
<1> DEFINE E(f) == [n \in 0 .. Len(s) |-> IF n = 0 THEN d ELSE EvolvedStored(f[n - 1], s[n])]
<1>1. StoredF \in [Types -> [Data -> Data]]
  BY StoredType
<1>2. Folded(EvolvedStored, d, s) = (CHOOSE r : r = E(r))[Len(s)]
  BY DEF Folded
<1>u. PICK f : Unrolled(Data, StoredF, d, s, f)
  BY <1>1, FoldLoop
<1>3. /\ f = [n \in 0 .. Len(s) |-> IF n = 0 THEN d ELSE StoredF[s[n]][f[n - 1]]]
      /\ \A n \in 1 .. Len(s) : f[n - 1] \in Data
  BY <1>u DEF Unrolled
<1>4. Len(s) \in Nat /\ \A n \in 1 .. Len(s), x \in Data : StoredF[s[n]][x] = EvolvedStored(x, s[n])
  BY DEF StoredF
<1>5. f = E(f)
  <2>1. \A n \in 0 .. Len(s) : n # 0 => StoredF[s[n]][f[n - 1]] = EvolvedStored(f[n - 1], s[n])
    BY <1>3, <1>4
  <2> QED
    BY <1>3, <2>1
<1>6. PICK r : r = E(r) /\ Folded(EvolvedStored, d, s) = r[Len(s)]
  <2> HIDE DEF E
  <2> QED
    BY <1>2, <1>5
<1>7. r = [n \in 0 .. Len(s) |-> r[n]] /\ r[0] = d
  BY <1>4, <1>6
<1>8. \A n \in 1 .. Len(s) : r[n] = EvolvedStored(r[n - 1], s[n])
  BY <1>4, <1>6
<1> HIDE DEF E
<1>9. Yields(Data, StoredF, d, s, r[Len(s)])
  BY <1>1, <1>4, <1>7, <1>8, FoldYields
<1> QED
  BY <1>6, <1>9

-----------------------------------------------------------------------------
(***************************************************************************)
(* Memory.                                                                 *)
(***************************************************************************)
Values == [ref : Nat, data : Data]

Memories ==
    {m \in [heap : Seq(Data), value : Values, ok : BOOLEAN] :
        m.value.ref <= Len(m.heap) /\ (setup.isValue => m.value.ref = 0)}

\* The heap has grown from h, and nothing in h was changed; the value is not in
\* h, and is the data.
Mirrors(h, m, d) ==
    /\ m \in Memories /\ d \in Data
    /\ Len(h) <= Len(m.heap) /\ \A r \in 1 .. Len(h) : m.heap[r] = h[r]
    /\ m.value.ref = 0 \/ m.value.ref > Len(h)
    /\ m.ok => DataOf(m.heap, m.value) = d

LEMMA MemoryFields ==
    ASSUME NEW m \in Memories
    PROVE  /\ m.heap \in Seq(Data) /\ m.value \in Values /\ m.ok \in BOOLEAN
           /\ m.value.ref \in Nat /\ m.value.data \in Data
           /\ Len(m.heap) \in Nat /\ m.value.ref <= Len(m.heap)
           /\ setup.isValue => m.value.ref = 0
           /\ m = [heap |-> m.heap, value |-> m.value, ok |-> m.ok]
           /\ m.value = [ref |-> m.value.ref, data |-> m.value.data]
BY DEF Memories, Values

LEMMA IsMemory ==
    ASSUME NEW h \in Seq(Data), NEW value \in Values, NEW ok \in BOOLEAN,
           value.ref <= Len(h), setup.isValue => value.ref = 0
    PROVE  [heap |-> h, value |-> value, ok |-> ok] \in Memories
BY DEF Memories

LEMMA FailedMirrors ==
    ASSUME NEW h \in Seq(Data), NEW m, NEW d, Mirrors(h, m, d), NEW e \in Data
    PROVE  Mirrors(h, Failed(m), e)
<1>1. m \in Memories
  BY DEF Mirrors
<1>2. Failed(m) = [heap |-> m.heap, value |-> m.value, ok |-> FALSE]
  BY DEF Failed
<1>3. /\ m.heap \in Seq(Data) /\ m.value \in Values /\ m.value.ref <= Len(m.heap)
      /\ setup.isValue => m.value.ref = 0
  BY <1>1, MemoryFields
<1>4. [heap |-> m.heap, value |-> m.value, ok |-> FALSE] \in Memories
  BY <1>3, IsMemory
<1> QED
  BY <1>2, <1>4 DEF Mirrors

\* A change in place changes nothing in h.
LEMMA ChangedMirrors ==
    ASSUME NEW h \in Seq(Data), NEW m, NEW d, Mirrors(h, m, d), NEW e \in Data
    PROVE  Mirrors(h, Changed(m, e), e)
<1>1. m \in Memories /\ Len(h) \in Nat
  BY DEF Mirrors
<1>2. /\ Len(h) <= Len(m.heap) /\ \A r \in 1 .. Len(h) : m.heap[r] = h[r]
      /\ m.value.ref = 0 \/ m.value.ref > Len(h)
  BY DEF Mirrors
<1>3. CASE setup.isValue
  <2>1. Changed(m, e) = [heap |-> m.heap, value |-> [ref |-> 0, data |-> e], ok |-> TRUE]
    BY <1>3 DEF Changed, Memory
  <2>2. [ref |-> 0, data |-> e] \in Values /\ [ref |-> 0, data |-> e].ref = 0
    BY DEF Values
  <2>3. m.heap \in Seq(Data) /\ Len(m.heap) \in Nat
    BY <1>1, MemoryFields
  <2>4. Changed(m, e) \in Memories
    <3> DEFINE new == [ref |-> 0, data |-> e]
    <3>1. new \in Values /\ new.ref = 0 /\ new.ref <= Len(m.heap)
      BY <2>2, <2>3
    <3> HIDE DEF new
    <3>2. [heap |-> m.heap, value |-> new, ok |-> TRUE] \in Memories
      BY <2>3, <3>1, IsMemory
    <3> QED
      BY <2>1, <3>2 DEF new
  <2> QED
    BY <1>2, <2>1, <2>4 DEF Mirrors, DataOf
<1>4. CASE ~setup.isValue /\ m.value.ref = 0
  <2> DEFINE g == Append(m.heap, e)
  <2>0. m.heap \in Seq(Data)
    BY <1>1, MemoryFields
  <2>1. /\ g \in Seq(Data) /\ Len(g) = Len(m.heap) + 1 /\ g[Len(m.heap) + 1] = e
        /\ \A r \in 1 .. Len(m.heap) : g[r] = m.heap[r]
    BY <2>0
  <2>2. Changed(m, e) = [heap |-> g, value |-> [ref |-> Len(m.heap) + 1, data |-> <<>>], ok |-> TRUE]
    BY <1>4 DEF Changed, Allocated, Memory
  <2> HIDE DEF g
  <2>3. Len(m.heap) \in Nat
    BY <2>0
  <2> DEFINE new == [ref |-> Len(m.heap) + 1, data |-> <<>>]
  <2>x. new \in Values /\ new.ref = Len(m.heap) + 1
    BY <2>3 DEF Values, Data
  <2>4. Changed(m, e) \in Memories
    <3> HIDE DEF new
    <3>1. new.ref <= Len(g)
      BY <2>1, <2>3, <2>x
    <3>2. [heap |-> g, value |-> new, ok |-> TRUE] \in Memories
      BY <1>4, <2>1, <2>x, <3>1, IsMemory
    <3> QED
      BY <2>2, <3>2 DEF new
  <2>5. Len(h) <= Len(g) /\ \A r \in 1 .. Len(h) : g[r] = h[r]
    BY <1>1, <1>2, <2>1, <2>3
  <2>6. Len(m.heap) + 1 > Len(h) /\ Len(m.heap) + 1 # 0
    BY <1>1, <1>2, <2>3
  <2> QED
    BY <2>1, <2>2, <2>4, <2>5, <2>6 DEF Mirrors, DataOf
<1>5. CASE ~setup.isValue /\ m.value.ref # 0
  <2> DEFINE ref == m.value.ref
             g == [m.heap EXCEPT ![ref] = e]
  <2>0. /\ m.heap \in Seq(Data) /\ m.value \in Values /\ ref \in Nat /\ ref <= Len(m.heap)
        /\ Len(m.heap) \in Nat
    BY <1>1, MemoryFields
  <2>1. ref \in 1 .. Len(m.heap) /\ ref > Len(h)
    BY <1>2, <1>5, <2>0
  <2>2. /\ g \in Seq(Data) /\ Len(g) = Len(m.heap) /\ g[ref] = e
        /\ \A r \in 1 .. Len(m.heap) : r # ref => g[r] = m.heap[r]
    BY <2>0, <2>1
  <2>3. Changed(m, e) = [heap |-> g, value |-> m.value, ok |-> TRUE]
    BY <1>5 DEF Changed, Memory
  <2> HIDE DEF g
  <2>4. Changed(m, e) \in Memories
    <3>1. [heap |-> g, value |-> m.value, ok |-> TRUE] \in Memories
      BY <1>5, <2>0, <2>2, IsMemory
    <3> QED
      BY <2>3, <3>1
  <2>5. Len(h) <= Len(g) /\ \A r \in 1 .. Len(h) : g[r] = h[r]
    BY <1>1, <1>2, <2>1, <2>2
  <2> QED
    BY <1>5, <2>1, <2>2, <2>3, <2>4, <2>5 DEF Mirrors, DataOf
<1> QED
  BY <1>3, <1>4, <1>5

LEMMA RuleMirrors ==
    ASSUME NEW h \in Seq(Data), NEW m, NEW d, Mirrors(h, m, d), m.ok, NEW t \in Types
    PROVE  Mirrors(h, Rule(m, t), Evolved(d, t))
<1>1. DataOf(m.heap, m.value) = d /\ d \in Data
  BY DEF Mirrors
<1>2. Evolved(d, t) \in Data
  BY <1>1, EvolvedType
<1>3. CASE t \in setup.ignored
  BY <1>3 DEF Rule, Evolved
<1>4. CASE t \notin setup.ignored /\ t \in setup.undecodable
  BY <1>2, <1>4, FailedMirrors DEF Rule
<1>5. CASE t \notin setup.ignored /\ t \notin setup.undecodable
  <2>1. Rule(m, t) = Changed(m, Evolved(d, t))
    BY <1>1, <1>5 DEF Rule
  <2> QED
    BY <1>2, <2>1, ChangedMirrors
<1> QED
  BY <1>3, <1>4, <1>5

LEMMA EvolveMirrors ==
    ASSUME NEW h \in Seq(Data), NEW m, NEW d, Mirrors(h, m, d), NEW t \in Types
    PROVE  Mirrors(h, evolve(m, t), Evolved(d, t)) /\ Mirrors(h, evolveBy(m, t), Evolved(d, t))
<1>1. Evolved(d, t) \in Data
  BY EvolvedType DEF Mirrors
<1>2. CASE ~m.ok
  <2>1. Mirrors(h, m, Evolved(d, t))
    BY <1>1, <1>2 DEF Mirrors
  <2> QED
    BY <1>2, <2>1 DEF evolve, evolveBy
<1>3. CASE m.ok
  <2>1. Mirrors(h, Rule(m, t), Evolved(d, t)) /\ Mirrors(h, Failed(m), Evolved(d, t))
    BY <1>1, <1>3, RuleMirrors, FailedMirrors
  <2> QED
    BY <1>3, <2>1 DEF evolve, evolveBy
<1> QED
  BY <1>2, <1>3

LEMMA MirrorsItself ==
    ASSUME NEW m \in Memories
    PROVE  Mirrors(<<>>, m, DataOf(m.heap, m.value))
<1>1. /\ m.heap \in Seq(Data) /\ m.value.data \in Data /\ m.value.ref \in Nat
      /\ m.value.ref <= Len(m.heap) /\ Len(m.heap) \in Nat
  BY MemoryFields
<1>2. DataOf(m.heap, m.value) \in Data
  <2>1. m.value.ref # 0 => m.value.ref \in 1 .. Len(m.heap)
    BY <1>1
  <2>2. m.value.ref # 0 => m.heap[m.value.ref] \in Data
    BY <1>1, <2>1
  <2> QED
    BY <1>1, <2>2 DEF DataOf
<1>3. PICK h \in Seq(Data) : h = <<>> /\ Len(h) = 0
  <2>1. <<>> \in Seq(Data) /\ Len(<<>>) = 0
    OBVIOUS
  <2> QED
    BY <2>1
<1>4. m.value.ref = 0 \/ m.value.ref > Len(h)
  BY <1>1, <1>3
<1>5. Len(h) <= Len(m.heap) /\ \A r \in 1 .. Len(h) : m.heap[r] = h[r]
  BY <1>1, <1>3
<1>6. Mirrors(h, m, DataOf(m.heap, m.value))
  BY <1>2, <1>4, <1>5 DEF Mirrors
<1> QED
  BY <1>3, <1>6

EvolveF == [t \in Types |-> [m \in Memories |-> evolve(m, t)]]

EvolveByF == [t \in Types |-> [m \in Memories |-> evolveBy(m, t)]]

EvolveByStoredF == [t \in Types |-> [m \in Memories |-> evolveByStored(m, t)]]

LEMMA EvolveType ==
    /\ EvolveF \in [Types -> [Memories -> Memories]]
    /\ EvolveByF \in [Types -> [Memories -> Memories]]
<1>1. ASSUME NEW m \in Memories, NEW t \in Types
      PROVE  evolve(m, t) \in Memories /\ evolveBy(m, t) \in Memories
  <2>1. PICK h \in Seq(Data) : \E d : Mirrors(h, m, d)
    <3>1. <<>> \in Seq(Data)
      OBVIOUS
    <3> QED
      BY <3>1, MirrorsItself
  <2>x. PICK d : Mirrors(h, m, d)
    BY <2>1
  <2>2. Mirrors(h, evolve(m, t), Evolved(d, t)) /\ Mirrors(h, evolveBy(m, t), Evolved(d, t))
    BY <2>x, EvolveMirrors
  <2> QED
    BY <2>2 DEF Mirrors
<1> QED
  BY <1>1 DEF EvolveF, EvolveByF

LEMMA FoldEvolve ==
    ASSUME NEW m \in Memories, NEW s \in Seq(Types)
    PROVE  Yields(Memories, EvolveF, m, s, Folded(evolve, m, s))
<1> DEFINE E(f) == [n \in 0 .. Len(s) |-> IF n = 0 THEN m ELSE evolve(f[n - 1], s[n])]
<1>1. EvolveF \in [Types -> [Memories -> Memories]]
  BY EvolveType
<1>2. Folded(evolve, m, s) = (CHOOSE r : r = E(r))[Len(s)]
  BY DEF Folded
<1>u. PICK f : Unrolled(Memories, EvolveF, m, s, f)
  BY <1>1, FoldLoop
<1>3. /\ f = [n \in 0 .. Len(s) |-> IF n = 0 THEN m ELSE EvolveF[s[n]][f[n - 1]]]
      /\ \A n \in 1 .. Len(s) : f[n - 1] \in Memories
  BY <1>u DEF Unrolled
<1>4. Len(s) \in Nat /\ \A n \in 1 .. Len(s), x \in Memories : EvolveF[s[n]][x] = evolve(x, s[n])
  BY DEF EvolveF
<1>5. f = E(f)
  <2>1. \A n \in 0 .. Len(s) : n # 0 => EvolveF[s[n]][f[n - 1]] = evolve(f[n - 1], s[n])
    BY <1>3, <1>4
  <2> QED
    BY <1>3, <2>1
<1>6. PICK r : r = E(r) /\ Folded(evolve, m, s) = r[Len(s)]
  <2> HIDE DEF E
  <2> QED
    BY <1>2, <1>5
<1>7. r = [n \in 0 .. Len(s) |-> r[n]] /\ r[0] = m
  BY <1>4, <1>6
<1>8. \A n \in 1 .. Len(s) : r[n] = evolve(r[n - 1], s[n])
  BY <1>4, <1>6
<1> HIDE DEF E
<1>9. Yields(Memories, EvolveF, m, s, r[Len(s)])
  BY <1>1, <1>4, <1>7, <1>8, FoldYields
<1> QED
  BY <1>6, <1>9

LEMMA FoldEvolveBy ==
    ASSUME NEW m \in Memories, NEW s \in Seq(Types)
    PROVE  Yields(Memories, EvolveByF, m, s, Folded(evolveBy, m, s))
<1> DEFINE E(f) == [n \in 0 .. Len(s) |-> IF n = 0 THEN m ELSE evolveBy(f[n - 1], s[n])]
<1>1. EvolveByF \in [Types -> [Memories -> Memories]]
  BY EvolveType
<1>2. Folded(evolveBy, m, s) = (CHOOSE r : r = E(r))[Len(s)]
  BY DEF Folded
<1>u. PICK f : Unrolled(Memories, EvolveByF, m, s, f)
  BY <1>1, FoldLoop
<1>3. /\ f = [n \in 0 .. Len(s) |-> IF n = 0 THEN m ELSE EvolveByF[s[n]][f[n - 1]]]
      /\ \A n \in 1 .. Len(s) : f[n - 1] \in Memories
  BY <1>u DEF Unrolled
<1>4. Len(s) \in Nat /\ \A n \in 1 .. Len(s), x \in Memories : EvolveByF[s[n]][x] = evolveBy(x, s[n])
  BY DEF EvolveByF
<1>5. f = E(f)
  <2>1. \A n \in 0 .. Len(s) : n # 0 => EvolveByF[s[n]][f[n - 1]] = evolveBy(f[n - 1], s[n])
    BY <1>3, <1>4
  <2> QED
    BY <1>3, <2>1
<1>6. PICK r : r = E(r) /\ Folded(evolveBy, m, s) = r[Len(s)]
  <2> HIDE DEF E
  <2> QED
    BY <1>2, <1>5
<1>7. r = [n \in 0 .. Len(s) |-> r[n]] /\ r[0] = m
  BY <1>4, <1>6
<1>8. \A n \in 1 .. Len(s) : r[n] = evolveBy(r[n - 1], s[n])
  BY <1>4, <1>6
<1> HIDE DEF E
<1>9. Yields(Memories, EvolveByF, m, s, r[Len(s)])
  BY <1>1, <1>4, <1>7, <1>8, FoldYields
<1> QED
  BY <1>6, <1>9

\* A fold in memory leads to what it is meant to, and changes nothing in h.
LEMMA FoldedMirrors ==
    ASSUME NEW h \in Seq(Data), NEW m, NEW d, Mirrors(h, m, d), NEW s \in Seq(Types)
    PROVE  Mirrors(h, Folded(evolve, m, s), Folded(Evolved, d, s))
<1> DEFINE R == {p \in Memories \X Data : Mirrors(h, p[1], p[2])}
<1>1. m \in Memories /\ d \in Data
  BY DEF Mirrors
<1>2. Yields(Memories, EvolveF, m, s, Folded(evolve, m, s))
  BY <1>1, FoldEvolve
<1>3. Yields(Data, EvolvedF, d, s, Folded(Evolved, d, s))
  BY <1>1, FoldEvolved
<1>4. EvolveF \in [Types -> [Memories -> Memories]] /\ EvolvedF \in [Types -> [Data -> Data]]
  BY EvolveType, EvolvedType
<1>5. <<m, d>> \in R
  BY <1>1
<1>6. ASSUME NEW x \in Memories, NEW y \in Data, NEW t \in Types, <<x, y>> \in R
      PROVE  <<EvolveF[t][x], EvolvedF[t][y]>> \in R
  <2>1. Mirrors(h, x, y)
    BY <1>6
  <2>2. Mirrors(h, evolve(x, t), Evolved(y, t))
    BY <2>1, EvolveMirrors
  <2>3. EvolveF[t][x] = evolve(x, t) /\ EvolvedF[t][y] = Evolved(y, t)
    BY DEF EvolveF, EvolvedF
  <2>4. evolve(x, t) \in Memories /\ Evolved(y, t) \in Data
    BY <2>2 DEF Mirrors
  <2> QED
    BY <2>2, <2>3, <2>4
<1>7. <<Folded(evolve, m, s), Folded(Evolved, d, s)>> \in R
  <2> HIDE DEF R
  <2> QED
    BY <1>2, <1>3, <1>4, <1>5, <1>6, YieldAlike
<1> QED
  BY <1>7

LEMMA FoldedByMirrors ==
    ASSUME NEW h \in Seq(Data), NEW m, NEW d, Mirrors(h, m, d), NEW s \in Seq(Types)
    PROVE  Mirrors(h, Folded(evolveBy, m, s), Folded(Evolved, d, s))
<1> DEFINE R == {p \in Memories \X Data : Mirrors(h, p[1], p[2])}
<1>1. m \in Memories /\ d \in Data
  BY DEF Mirrors
<1>2. Yields(Memories, EvolveByF, m, s, Folded(evolveBy, m, s))
  BY <1>1, FoldEvolveBy
<1>3. Yields(Data, EvolvedF, d, s, Folded(Evolved, d, s))
  BY <1>1, FoldEvolved
<1>4. EvolveByF \in [Types -> [Memories -> Memories]] /\ EvolvedF \in [Types -> [Data -> Data]]
  BY EvolveType, EvolvedType
<1>5. <<m, d>> \in R
  BY <1>1
<1>6. ASSUME NEW x \in Memories, NEW y \in Data, NEW t \in Types, <<x, y>> \in R
      PROVE  <<EvolveByF[t][x], EvolvedF[t][y]>> \in R
  <2>1. Mirrors(h, x, y)
    BY <1>6
  <2>2. Mirrors(h, evolveBy(x, t), Evolved(y, t))
    BY <2>1, EvolveMirrors
  <2>3. EvolveByF[t][x] = evolveBy(x, t) /\ EvolvedF[t][y] = Evolved(y, t)
    BY DEF EvolveByF, EvolvedF
  <2>4. evolveBy(x, t) \in Memories /\ Evolved(y, t) \in Data
    BY <2>2 DEF Mirrors
  <2> QED
    BY <2>2, <2>3, <2>4
<1>7. <<Folded(evolveBy, m, s), Folded(Evolved, d, s)>> \in R
  <2> HIDE DEF R
  <2> QED
    BY <1>2, <1>3, <1>4, <1>5, <1>6, YieldAlike
<1> QED
  BY <1>7

LEMMA StoredMirrors ==
    ASSUME setup \in Setups,
           NEW h \in Seq(Data), NEW m, NEW d, Mirrors(h, m, d), NEW t \in Types
    PROVE  Mirrors(h, evolveByStored(m, t), EvolvedStored(d, t))
<1>1. d \in Data
  BY DEF Mirrors
<1>2. EvolvedStored(d, t) \in Data
  BY <1>1, StoredType
<1>3. CASE ~m.ok
  BY <1>2, <1>3 DEF Mirrors, evolveByStored
<1>4. CASE m.ok /\ ~apply(t).ok
  BY <1>2, <1>4, FailedMirrors DEF evolveByStored
<1>5. CASE m.ok /\ apply(t).ok
  <2>1. apply(t).types \in Seq(Types)
    BY ApplyType DEF Outcomes
  <2>2. Mirrors(h, Folded(evolve, m, apply(t).types), Folded(Evolved, d, apply(t).types))
    BY <2>1, FoldedMirrors
  <2> QED
    BY <1>5, <2>2 DEF evolveByStored, EvolvedStored
<1> QED
  BY <1>3, <1>4, <1>5

LEMMA EvolveStoredType ==
    ASSUME setup \in Setups
    PROVE  EvolveByStoredF \in [Types -> [Memories -> Memories]]
<1>1. ASSUME NEW m \in Memories, NEW t \in Types
      PROVE  evolveByStored(m, t) \in Memories
  <2>1. PICK h \in Seq(Data) : \E d : Mirrors(h, m, d)
    <3>1. <<>> \in Seq(Data)
      OBVIOUS
    <3> QED
      BY <3>1, MirrorsItself
  <2>x. PICK d : Mirrors(h, m, d)
    BY <2>1
  <2>2. Mirrors(h, evolveByStored(m, t), EvolvedStored(d, t))
    BY <2>x, StoredMirrors
  <2> QED
    BY <2>2 DEF Mirrors
<1> QED
  BY <1>1 DEF EvolveByStoredF

LEMMA FoldEvolveByStored ==
    ASSUME setup \in Setups, NEW m \in Memories, NEW s \in Seq(Types)
    PROVE  Yields(Memories, EvolveByStoredF, m, s, Folded(evolveByStored, m, s))
<1> DEFINE E(f) == [n \in 0 .. Len(s) |-> IF n = 0 THEN m ELSE evolveByStored(f[n - 1], s[n])]
<1>1. EvolveByStoredF \in [Types -> [Memories -> Memories]]
  BY EvolveStoredType
<1>2. Folded(evolveByStored, m, s) = (CHOOSE r : r = E(r))[Len(s)]
  BY DEF Folded
<1>u. PICK f : Unrolled(Memories, EvolveByStoredF, m, s, f)
  BY <1>1, FoldLoop
<1>3. /\ f = [n \in 0 .. Len(s) |-> IF n = 0 THEN m ELSE EvolveByStoredF[s[n]][f[n - 1]]]
      /\ \A n \in 1 .. Len(s) : f[n - 1] \in Memories
  BY <1>u DEF Unrolled
<1>4. /\ Len(s) \in Nat
      /\ \A n \in 1 .. Len(s), x \in Memories : EvolveByStoredF[s[n]][x] = evolveByStored(x, s[n])
  BY DEF EvolveByStoredF
<1>5. f = E(f)
  <2>1. \A n \in 0 .. Len(s) : n # 0 => EvolveByStoredF[s[n]][f[n - 1]] = evolveByStored(f[n - 1], s[n])
    BY <1>3, <1>4
  <2> QED
    BY <1>3, <2>1
<1>6. PICK r : r = E(r) /\ Folded(evolveByStored, m, s) = r[Len(s)]
  <2> HIDE DEF E
  <2> QED
    BY <1>2, <1>5
<1>7. r = [n \in 0 .. Len(s) |-> r[n]] /\ r[0] = m
  BY <1>4, <1>6
<1>8. \A n \in 1 .. Len(s) : r[n] = evolveByStored(r[n - 1], s[n])
  BY <1>4, <1>6
<1> HIDE DEF E
<1>9. Yields(Memories, EvolveByStoredF, m, s, r[Len(s)])
  BY <1>1, <1>4, <1>7, <1>8, FoldYields
<1> QED
  BY <1>6, <1>9

LEMMA FoldedStoredMirrors ==
    ASSUME setup \in Setups,
           NEW h \in Seq(Data), NEW m, NEW d, Mirrors(h, m, d), NEW s \in Seq(Types)
    PROVE  Mirrors(h, Folded(evolveByStored, m, s), Folded(EvolvedStored, d, s))
<1> DEFINE R == {p \in Memories \X Data : Mirrors(h, p[1], p[2])}
<1>1. m \in Memories /\ d \in Data
  BY DEF Mirrors
<1>2. Yields(Memories, EvolveByStoredF, m, s, Folded(evolveByStored, m, s))
  BY <1>1, FoldEvolveByStored
<1>3. Yields(Data, StoredF, d, s, Folded(EvolvedStored, d, s))
  BY <1>1, FoldStored
<1>4. EvolveByStoredF \in [Types -> [Memories -> Memories]] /\ StoredF \in [Types -> [Data -> Data]]
  BY EvolveStoredType, StoredType
<1>5. <<m, d>> \in R
  BY <1>1
<1>6. ASSUME NEW x \in Memories, NEW y \in Data, NEW t \in Types, <<x, y>> \in R
      PROVE  <<EvolveByStoredF[t][x], StoredF[t][y]>> \in R
  <2>1. Mirrors(h, x, y)
    BY <1>6
  <2>2. Mirrors(h, evolveByStored(x, t), EvolvedStored(y, t))
    BY <2>1, StoredMirrors
  <2>3. EvolveByStoredF[t][x] = evolveByStored(x, t) /\ StoredF[t][y] = EvolvedStored(y, t)
    BY DEF EvolveByStoredF, StoredF
  <2>4. evolveByStored(x, t) \in Memories /\ EvolvedStored(y, t) \in Data
    BY <2>2 DEF Mirrors
  <2> QED
    BY <2>2, <2>3, <2>4
<1>7. <<Folded(evolveByStored, m, s), Folded(EvolvedStored, d, s)>> \in R
  <2> HIDE DEF R
  <2> QED
    BY <1>2, <1>3, <1>4, <1>5, <1>6, YieldAlike
<1> QED
  BY <1>7

\* A copy is a copy.
LEMMA CopyMirrors ==
    ASSUME NEW h \in Seq(Data), NEW value \in Values, value.ref <= Len(h),
           setup.isValue => value.ref = 0, setup.hasClone \/ value.ref = 0
    PROVE  Mirrors(h, copyOf(Memory(h, value)), DataOf(h, value))
<1>1. /\ Len(h) \in Nat /\ value.ref \in Nat /\ value.data \in Data
  BY DEF Values
<1>2. CASE value.ref = 0
  <2>1. copyOf(Memory(h, value)) = [heap |-> h, value |-> value, ok |-> TRUE]
    BY <1>2 DEF copyOf, Memory
  <2>2. [heap |-> h, value |-> value, ok |-> TRUE] \in Memories
    BY IsMemory
  <2> QED
    BY <1>1, <1>2, <2>1, <2>2 DEF Mirrors, DataOf
<1>3. CASE value.ref # 0
  <2> DEFINE d == h[value.ref]
             g == Append(h, d)
             new == [ref |-> Len(h) + 1, data |-> <<>>]
  <2>1. d \in Data /\ DataOf(h, value) = d /\ ~setup.isValue
    BY <1>1, <1>3 DEF DataOf
  <2>2. copyOf(Memory(h, value)) = [heap |-> g, value |-> new, ok |-> TRUE]
    BY <1>3 DEF copyOf, Memory, Allocated
  <2> HIDE DEF d
  <2>3. /\ g \in Seq(Data) /\ Len(g) = Len(h) + 1 /\ g[Len(h) + 1] = d
        /\ \A r \in 1 .. Len(h) : g[r] = h[r]
    BY <2>1
  <2>4. new \in Values /\ new.ref = Len(h) + 1
    BY <1>1 DEF Values, Data
  <2> HIDE DEF g, new
  <2>5. [heap |-> g, value |-> new, ok |-> TRUE] \in Memories
    <3>1. new.ref <= Len(g)
      BY <1>1, <2>3, <2>4
    <3> QED
      BY <2>1, <2>3, <2>4, <3>1, IsMemory
  <2>6. Len(h) <= Len(g) /\ new.ref > Len(h) /\ new.ref # 0
    BY <1>1, <2>3, <2>4
  <2> QED
    BY <2>1, <2>2, <2>3, <2>4, <2>5, <2>6 DEF Mirrors, DataOf
<1> QED
  BY <1>2, <1>3

LEMMA MirrorsBehind ==
    ASSUME NEW h \in Seq(Data), NEW n, NEW e, Mirrors(h, n, e),
           NEW m, NEW d, Mirrors(n.heap, m, d)
    PROVE  Mirrors(h, m, d)
<1>1. /\ Len(h) \in Nat /\ Len(h) <= Len(n.heap) /\ \A r \in 1 .. Len(h) : n.heap[r] = h[r]
      /\ n \in Memories
  BY DEF Mirrors
<1>2. Len(n.heap) \in Nat
  BY <1>1, MemoryFields
<1>3. /\ m \in Memories /\ d \in Data
      /\ Len(n.heap) <= Len(m.heap) /\ \A r \in 1 .. Len(n.heap) : m.heap[r] = n.heap[r]
      /\ m.value.ref = 0 \/ m.value.ref > Len(n.heap)
      /\ m.ok => DataOf(m.heap, m.value) = d
  BY DEF Mirrors
<1>4. Len(m.heap) \in Nat /\ m.value.ref \in Nat
  BY <1>3, MemoryFields
<1>5. \A r \in 1 .. Len(h) : r \in 1 .. Len(n.heap)
  BY <1>1, <1>2
<1>6. \A r \in 1 .. Len(h) : m.heap[r] = h[r]
  BY <1>1, <1>3, <1>5
<1>7. Len(h) <= Len(m.heap) /\ (m.value.ref = 0 \/ m.value.ref > Len(h))
  BY <1>1, <1>2, <1>3, <1>4
<1> QED
  BY <1>3, <1>6, <1>7 DEF Mirrors

-----------------------------------------------------------------------------
(***************************************************************************)
(* A history can be split anywhere, and nothing before the latest full     *)
(* event matters.                                                          *)
(***************************************************************************)
LEMMA FoldedOn ==
    ASSUME setup \in Setups, NEW s \in Seq(Types), NEW n \in 0 .. Len(s), NEW k \in 0 .. n,
           NEW d \in Data
    PROVE  /\ Folded(Evolved, Folded(Evolved, d, SubSeq(s, 1, k)), SubSeq(s, k + 1, n))
                = Folded(Evolved, d, SubSeq(s, 1, n))
           /\ Folded(EvolvedStored, Folded(EvolvedStored, d, SubSeq(s, 1, k)), SubSeq(s, k + 1, n))
                = Folded(EvolvedStored, d, SubSeq(s, 1, n))
<1> DEFINE p == SubSeq(s, 1, k)
           q == SubSeq(s, k + 1, n)
           u == SubSeq(s, 1, n)
<1>1. p \in Seq(Types) /\ q \in Seq(Types) /\ u \in Seq(Types)
  OBVIOUS
<1>2. Folded(Evolved, Folded(Evolved, d, p), q) = Folded(Evolved, d, u)
  <2> DEFINE b == Folded(Evolved, d, p)
             c == Folded(Evolved, b, q)
  <2> HIDE DEF p, q, u
  <2>1. EvolvedF \in [Types -> [Data -> Data]]
    BY EvolvedType
  <2>2. Yields(Data, EvolvedF, d, p, b)
    BY <1>1, FoldEvolved
  <2>3. b \in Data
    BY <1>1, <2>2, YieldsType
  <2> HIDE DEF b
  <2>4. Yields(Data, EvolvedF, b, q, c)
    BY <1>1, <2>3, FoldEvolved
  <2> HIDE DEF c
  <2>5. Yields(Data, EvolvedF, d, u, c)
    BY <2>1, <2>2, <2>4, YieldsOn DEF p, q, u
  <2>6. Yields(Data, EvolvedF, d, u, Folded(Evolved, d, u))
    BY <1>1, FoldEvolved
  <2>7. c = Folded(Evolved, d, u)
    BY <1>1, <2>1, <2>5, <2>6, YieldsOnce
  <2> QED
    BY <2>7 DEF b, c
<1>3. Folded(EvolvedStored, Folded(EvolvedStored, d, p), q) = Folded(EvolvedStored, d, u)
  <2> DEFINE b == Folded(EvolvedStored, d, p)
             c == Folded(EvolvedStored, b, q)
  <2> HIDE DEF p, q, u
  <2>1. StoredF \in [Types -> [Data -> Data]]
    BY StoredType
  <2>2. Yields(Data, StoredF, d, p, b)
    BY <1>1, FoldStored
  <2>3. b \in Data
    BY <1>1, <2>2, YieldsType
  <2> HIDE DEF b
  <2>4. Yields(Data, StoredF, b, q, c)
    BY <1>1, <2>3, FoldStored
  <2> HIDE DEF c
  <2>5. Yields(Data, StoredF, d, u, c)
    BY <2>1, <2>2, <2>4, YieldsOn DEF p, q, u
  <2>6. Yields(Data, StoredF, d, u, Folded(EvolvedStored, d, u))
    BY <1>1, FoldStored
  <2>7. c = Folded(EvolvedStored, d, u)
    BY <1>1, <2>1, <2>5, <2>6, YieldsOnce
  <2> QED
    BY <2>7 DEF b, c
<1> QED
  BY <1>2, <1>3

LEMMA FoldedType ==
    ASSUME setup \in Setups, NEW s \in Seq(Types), NEW d \in Data
    PROVE  Folded(Evolved, d, s) \in Data /\ Folded(EvolvedStored, d, s) \in Data
<1>1. Yields(Data, EvolvedF, d, s, Folded(Evolved, d, s))
  BY FoldEvolved
<1>2. Yields(Data, StoredF, d, s, Folded(EvolvedStored, d, s))
  BY FoldStored
<1> QED
  BY <1>1, <1>2, YieldsType

LEMMA FromLatestIs ==
    ASSUME NEW s \in Seq(Types)
    PROVE  /\ FromLatest(s) \in Seq(Types)
           /\ \/ FromLatest(s) = s
              \/ \E l \in 1 .. Len(s) : /\ s[l] = setup.fromLatest
                                        /\ FromLatest(s) = SubSeq(s, l, Len(s))
<1> DEFINE latest == {i \in DOMAIN s : s[i] = setup.fromLatest}
<1>1. CASE latest = {}
  BY <1>1 DEF FromLatest
<1>2. CASE latest # {}
  <2> DEFINE T == {Len(s) - i : i \in latest}
  <2>1. Len(s) \in Nat /\ \A i \in latest : i \in 1 .. Len(s) /\ s[i] = setup.fromLatest
    OBVIOUS
  <2>2. T \in SUBSET Nat /\ T # {}
    BY <1>2, <2>1
  <2>3. PICK x \in T : \A y \in T : x <= y
    <3> HIDE DEF T
    <3> QED
      BY <2>2, LeastElement
  <2>4. PICK i \in latest : x = Len(s) - i
    BY <2>3
  <2>5. \A j \in latest : i >= j
    <3> SUFFICES ASSUME NEW j \in latest
                 PROVE  i >= j
      OBVIOUS
    <3>1. x <= Len(s) - j
      BY <2>3
    <3> QED
      BY <2>1, <2>4, <3>1
  <2>6. Max(latest) \in latest
    <3> HIDE DEF latest
    <3> QED
      BY <2>5 DEF Max
  <2> DEFINE l == Max(latest)
  <2>7. FromLatest(s) = SubSeq(s, l, Len(s))
    BY <1>2 DEF FromLatest
  <2>8. l \in 1 .. Len(s) /\ s[l] = setup.fromLatest
    <3> HIDE DEF latest, l
    <3> QED
      BY <2>1, <2>6 DEF l
  <2> HIDE DEF l
  <2>9. SubSeq(s, l, Len(s)) \in Seq(Types)
    BY <2>8
  <2> QED
    BY <2>7, <2>8, <2>9
<1> QED
  BY <1>1, <1>2

\* What a full event leads to does not depend on what was before it.
LEMMA FullResets ==
    ASSUME setup \in Setups, IsBuilt(setup), NEW t \in Types, t = setup.fromLatest, NEW d \in Data
    PROVE  Evolved(d, t) = <<t>> /\ EvolvedStored(d, t) = <<t>>
<1>1. t # NoType
  BY StatesAssumption
<1>2. t \notin setup.ignored /\ ~HasUpcaster(t)
  BY <1>1 DEF IsBuilt, HasUpcaster
<1>3. Evolved(d, t) = <<t>>
  BY <1>2 DEF Evolved
<1>4. apply(t).types = <<t>>
  BY <1>2, ApplyType
<1>5. PICK s \in Seq(Types) : s = <<t>> /\ Len(s) = 1 /\ s[1] = t
  <2>1. <<t>> \in Seq(Types) /\ Len(<<t>>) = 1 /\ <<t>>[1] = t
    OBVIOUS
  <2> QED
    BY <2>1
<1>6. Yields(Data, EvolvedF, d, s, Folded(Evolved, d, s))
  BY FoldEvolved
<1>7. PICK f : Loop(Data, d, Len(s), StepsOf(EvolvedF, s), f) /\ Folded(Evolved, d, s) = f[Len(s)]
  BY <1>6 DEF Yields
<1>8. f[0] = d /\ f[1] = EvolvedF[t][f[0]]
  <2>1. 1 \in 1 .. 1 /\ 1 - 1 = 0
    OBVIOUS
  <2>2. f[0] = d /\ f[1] = StepsOf(EvolvedF, s)[1][f[0]]
    BY <1>5, <1>7, <2>1 DEF Loop
  <2>3. StepsOf(EvolvedF, s)[1] = EvolvedF[t]
    BY <1>5, <2>1, StepsAre
  <2> QED
    BY <2>2, <2>3
<1>9. EvolvedF[t][d] = Evolved(d, t)
  BY DEF EvolvedF
<1>10. Folded(Evolved, d, s) = <<t>>
  BY <1>3, <1>5, <1>7, <1>8, <1>9
<1> QED
  BY <1>3, <1>4, <1>5, <1>10 DEF EvolvedStored

LEMMA FromLatestLeadsThere ==
    ASSUME setup \in Setups, IsBuilt(setup), NEW s \in Seq(Types)
    PROVE  /\ Folded(Evolved, <<>>, FromLatest(s)) = Folded(Evolved, <<>>, s)
           /\ Folded(EvolvedStored, <<>>, FromLatest(s)) = Folded(EvolvedStored, <<>>, s)
<1>1. CASE FromLatest(s) = s
  BY <1>1
<1>2. CASE \E l \in 1 .. Len(s) : /\ s[l] = setup.fromLatest
                                  /\ FromLatest(s) = SubSeq(s, l, Len(s))
  <2>1. PICK l \in 1 .. Len(s) : s[l] = setup.fromLatest /\ FromLatest(s) = SubSeq(s, l, Len(s))
    BY <1>2
  <2>2. PICK e \in Data : e = <<>>
    <3>1. <<>> \in Data
      BY DEF Data
    <3> QED
      BY <3>1
  <2> DEFINE k == l - 1
             n == Len(s)
             p == SubSeq(s, 1, k)
             q == SubSeq(s, k + 1, n)
  <2>3. n \in 0 .. Len(s) /\ k \in 0 .. n /\ k + 1 = l /\ SubSeq(s, 1, n) = s
    OBVIOUS
  <2>4. p \in Seq(Types)
    BY <2>3
  <2>5. q \in Seq(Types) /\ q # <<>> /\ q[1] = s[l] /\ q[1] \in Types /\ FromLatest(s) = q
    <3>1. k + 1 \in 1 .. n /\ n \in Nat
      BY <2>3
    <3>2. q = SubSeq(s, l, n) /\ l \in 1 .. n /\ n = Len(s)
      BY <2>3
    <3> HIDE DEF q, n, k
    <3>3. q \in Seq(Types) /\ Len(q) = n - l + 1 /\ q[1] = s[l]
      BY <3>1, <3>2
    <3>x. Len(q) # 0 /\ s[l] \in Types
      BY <3>1, <3>2, <3>3
    <3>4. q # <<>> /\ s[l] \in Types
      BY <3>x
    <3> QED
      BY <2>1, <3>2, <3>3, <3>4
  <2> HIDE DEF k, n
  <2>6. /\ Folded(Evolved, Folded(Evolved, e, p), q) = Folded(Evolved, e, SubSeq(s, 1, n))
        /\ Folded(EvolvedStored, Folded(EvolvedStored, e, p), q)
              = Folded(EvolvedStored, e, SubSeq(s, 1, n))
    BY <2>3, FoldedOn
  <2> HIDE DEF p, q
  <2>7. Folded(Evolved, e, p) \in Data /\ Folded(EvolvedStored, e, p) \in Data
    BY <2>4, FoldedType
  <2>8. \A x \in Data : Evolved(x, q[1]) = <<q[1]>> /\ EvolvedStored(x, q[1]) = <<q[1]>>
    BY <2>1, <2>5, FullResets
  <2>9. Folded(Evolved, Folded(Evolved, e, p), q) = Folded(Evolved, e, q)
    <3>1. \A x, y \in Data : EvolvedF[q[1]][x] = EvolvedF[q[1]][y]
      BY <2>5, <2>8 DEF EvolvedF
    <3>2. EvolvedF \in [Types -> [Data -> Data]]
      BY EvolvedType
    <3>3. Yields(Data, EvolvedF, e, q, Folded(Evolved, e, q))
      BY <2>5, FoldEvolved
    <3> DEFINE b == Folded(Evolved, e, p)
    <3> HIDE DEF b
    <3>4. Yields(Data, EvolvedF, b, q, Folded(Evolved, b, q))
      BY <2>5, <2>7, FoldEvolved DEF b
    <3>5. Folded(Evolved, b, q) = Folded(Evolved, e, q)
      BY <2>5, <3>1, <3>2, <3>3, <3>4, YieldsReset
    <3> QED
      BY <3>5 DEF b
  <2>10. Folded(EvolvedStored, Folded(EvolvedStored, e, p), q) = Folded(EvolvedStored, e, q)
    <3>1. \A x, y \in Data : StoredF[q[1]][x] = StoredF[q[1]][y]
      BY <2>5, <2>8 DEF StoredF
    <3>2. StoredF \in [Types -> [Data -> Data]]
      BY StoredType
    <3>3. Yields(Data, StoredF, e, q, Folded(EvolvedStored, e, q))
      BY <2>5, FoldStored
    <3> DEFINE b == Folded(EvolvedStored, e, p)
    <3> HIDE DEF b
    <3>4. Yields(Data, StoredF, b, q, Folded(EvolvedStored, b, q))
      BY <2>5, <2>7, FoldStored DEF b
    <3>5. Folded(EvolvedStored, b, q) = Folded(EvolvedStored, e, q)
      BY <2>5, <3>1, <3>2, <3>3, <3>4, YieldsReset
    <3> QED
      BY <3>5 DEF b
  <2> QED
    BY <2>2, <2>3, <2>5, <2>6, <2>9, <2>10
<1> QED
  BY <1>1, <1>2, FromLatestIs

-----------------------------------------------------------------------------
(***************************************************************************)
(* The states that somebody holds do not share memory.                     *)
(***************************************************************************)
IsValue(h, v) == v \in Values /\ v.ref <= Len(h) /\ (setup.isValue => v.ref = 0)

Apart(v, w) == v.ref = 0 \/ v.ref # w.ref

HeldInv ==
    /\ held \in Seq([value : Values, expected : Data])
    /\ \A k \in DOMAIN held :
          /\ IsValue(heap, held[k].value)
          /\ DataOf(heap, held[k].value) = held[k].expected
          /\ Apart(held[k].value, initial) /\ Apart(held[k].value, cached.value)
          /\ \A l \in DOMAIN held : k # l => Apart(held[k].value, held[l].value)

CachedInv ==
    /\ IsValue(heap, cached.value) /\ Apart(cached.value, initial)
    /\ cached.count \in 0 .. stored
    /\ cached.count > 0 => DataOf(heap, cached.value) = Reference(Prefix(cached.count))

InitialInv == IsValue(heap, initial) /\ DataOf(heap, initial) = <<>>

SetupInv ==
    setup \in Setups /\ IsBuilt(setup) /\ heap \in Seq(Data) /\ stored \in 0 .. Len(setup.log)

StatesInv == SetupInv /\ InitialInv /\ CachedInv /\ HeldInv

LEMMA ReferenceKept ==
    ASSUME setup' = setup
    PROVE  Reference(Prefix(cached.count))' = Reference(Prefix(cached.count'))
BY DEF Reference, Folded, EvolvedStored, Evolved, apply, applyWithBudget, upcastDownTo,
       HasUpcaster, Prefix

LEMMA ValueKept ==
    ASSUME NEW h \in Seq(Data), NEW m, NEW d, Mirrors(h, m, d), NEW v, IsValue(h, v)
    PROVE  /\ IsValue(m.heap, v) /\ DataOf(m.heap, v) = DataOf(h, v)
           /\ Apart(v, m.value) /\ Apart(m.value, v)
<1>1. /\ Len(h) \in Nat /\ Len(h) <= Len(m.heap) /\ \A r \in 1 .. Len(h) : m.heap[r] = h[r]
      /\ m.value.ref = 0 \/ m.value.ref > Len(h)
      /\ m \in Memories
  BY DEF Mirrors
<1>2. Len(m.heap) \in Nat /\ m.value.ref \in Nat
  BY <1>1, MemoryFields
<1>3. v \in Values /\ v.ref \in Nat /\ v.ref <= Len(h) /\ (setup.isValue => v.ref = 0)
  BY DEF IsValue, Values
<1>4. IsValue(m.heap, v)
  BY <1>1, <1>2, <1>3 DEF IsValue
<1>5. v.ref # 0 => v.ref \in 1 .. Len(h)
  BY <1>1, <1>3
<1>6. DataOf(m.heap, v) = DataOf(h, v)
  BY <1>1, <1>5 DEF DataOf
<1>7. Apart(v, m.value) /\ Apart(m.value, v)
  BY <1>1, <1>2, <1>3 DEF Apart
<1> QED
  BY <1>4, <1>6, <1>7

\* Memory that only grows, with a state somebody may hold now, and one cached.
LEMMA GrowingKeepsStates ==
    ASSUME StatesInv, NEW m, NEW d, Mirrors(heap, m, d), heap' = m.heap,
           held' = IF m.ok THEN Append(held, [value |-> m.value, expected |-> d]) ELSE held,
           setup' = setup, initial' = initial, stored' = stored,
           IsValue(m.heap, cached'.value), Apart(cached'.value, initial),
           \A k \in DOMAIN held : Apart(held[k].value, cached'.value),
           m.ok => Apart(m.value, cached'.value),
           cached'.count \in 0 .. stored,
           cached'.count > 0 => DataOf(m.heap, cached'.value) = Reference(Prefix(cached'.count))
    PROVE  StatesInv'
<1>1. m \in Memories /\ d \in Data /\ heap \in Seq(Data)
  BY DEF Mirrors, StatesInv, SetupInv
<1>2. /\ m.heap \in Seq(Data) /\ m.value \in Values /\ m.value.ref <= Len(m.heap)
      /\ (setup.isValue => m.value.ref = 0)
  BY <1>1, MemoryFields
<1>3. SetupInv'
  BY <1>2 DEF StatesInv, SetupInv, IsBuilt
<1>4. InitialInv'
  <2>1. IsValue(heap, initial) /\ DataOf(heap, initial) = <<>>
    BY DEF StatesInv, InitialInv
  <2>2. IsValue(m.heap, initial) /\ DataOf(m.heap, initial) = <<>>
    BY <1>1, <2>1, ValueKept
  <2> QED
    BY <2>2 DEF InitialInv, IsValue, DataOf
<1>5. CachedInv'
  <2>1. Reference(Prefix(cached.count))' = Reference(Prefix(cached.count'))
    BY ReferenceKept
  <2> QED
    BY <2>1 DEF CachedInv, IsValue, DataOf, Apart
<1>6. \A k \in DOMAIN held :
         /\ IsValue(m.heap, held[k].value)
         /\ DataOf(m.heap, held[k].value) = held[k].expected
         /\ Apart(held[k].value, initial) /\ Apart(held[k].value, cached'.value)
         /\ Apart(held[k].value, m.value) /\ Apart(m.value, held[k].value)
         /\ \A l \in DOMAIN held : k # l => Apart(held[k].value, held[l].value)
  <2> SUFFICES ASSUME NEW k \in DOMAIN held
               PROVE  /\ IsValue(m.heap, held[k].value)
                      /\ DataOf(m.heap, held[k].value) = held[k].expected
                      /\ Apart(held[k].value, initial) /\ Apart(held[k].value, cached'.value)
                      /\ Apart(held[k].value, m.value) /\ Apart(m.value, held[k].value)
                      /\ \A l \in DOMAIN held : k # l => Apart(held[k].value, held[l].value)
    OBVIOUS
  <2>1. /\ IsValue(heap, held[k].value) /\ DataOf(heap, held[k].value) = held[k].expected
        /\ Apart(held[k].value, initial)
        /\ \A l \in DOMAIN held : k # l => Apart(held[k].value, held[l].value)
    BY DEF StatesInv, HeldInv
  <2>2. /\ IsValue(m.heap, held[k].value) /\ DataOf(m.heap, held[k].value) = DataOf(heap, held[k].value)
        /\ Apart(held[k].value, m.value) /\ Apart(m.value, held[k].value)
    BY <1>1, <2>1, ValueKept
  <2> QED
    BY <2>1, <2>2
<1>7. held \in Seq([value : Values, expected : Data])
  BY DEF StatesInv, HeldInv
<1>8. CASE ~m.ok
  <2>1. held' = held
    BY <1>8
  <2>2. HeldInv'
    BY <1>6, <1>7, <2>1 DEF HeldInv, IsValue, DataOf, Apart
  <2> QED
    BY <1>3, <1>4, <1>5, <2>2 DEF StatesInv
<1>9. CASE m.ok
  <2> DEFINE new == [value |-> m.value, expected |-> d]
             N == Len(held)
             Records == [value : Values, expected : Data]
  <2>1. new \in [value : Values, expected : Data] /\ new.value = m.value /\ new.expected = d
    BY <1>1, <1>2
  <2>2. held' = Append(held, new)
    BY <1>9
  <2> HIDE DEF new
  <2>3. /\ N \in Nat /\ DOMAIN held = 1 .. N
        /\ held' \in Seq([value : Values, expected : Data])
        /\ DOMAIN held' = 1 .. N + 1 /\ held'[N + 1] = new
        /\ \A k \in 1 .. N : held'[k] = held[k]
    <3>1. held \in Seq(Records) /\ new \in Records
      BY <1>7, <2>1
    <3> HIDE DEF Records
    <3>2. /\ N \in Nat /\ DOMAIN held = 1 .. N
          /\ held' \in Seq(Records)
          /\ DOMAIN held' = 1 .. N + 1 /\ held'[N + 1] = new
          /\ \A k \in 1 .. N : held'[k] = held[k]
      BY <2>2, <3>1
    <3> QED
      BY <3>2 DEF Records
  <2> HIDE DEF N
  <2>4. \A k \in 1 .. N + 1 :
           \/ k \in DOMAIN held /\ k # N + 1 /\ held'[k] = held[k]
           \/ k = N + 1 /\ held'[k] = new
    BY <2>3
  <2>5. IsValue(m.heap, m.value) /\ DataOf(m.heap, m.value) = d
    BY <1>2, <1>9 DEF IsValue, Mirrors
  <2>6. Apart(m.value, initial) /\ Apart(m.value, cached'.value)
    <3>1. IsValue(heap, initial)
      BY DEF StatesInv, InitialInv
    <3> QED
      BY <1>1, <1>9, <3>1, ValueKept
  <2>7. ASSUME NEW k \in DOMAIN held'
        PROVE  /\ IsValue(m.heap, held'[k].value)
               /\ DataOf(m.heap, held'[k].value) = held'[k].expected
               /\ Apart(held'[k].value, initial) /\ Apart(held'[k].value, cached'.value)
               /\ \A l \in DOMAIN held' : k # l => Apart(held'[k].value, held'[l].value)
    <3>1. CASE k \in DOMAIN held /\ k # N + 1 /\ held'[k] = held[k]
      <4>1. ASSUME NEW l \in DOMAIN held', k # l
            PROVE  Apart(held'[k].value, held'[l].value)
        BY <1>6, <2>1, <2>3, <2>4, <3>1, <4>1
      <4> QED
        BY <1>6, <3>1, <4>1
    <3>2. CASE k = N + 1 /\ held'[k] = new
      <4>1. ASSUME NEW l \in DOMAIN held', k # l
            PROVE  Apart(held'[k].value, held'[l].value)
        BY <1>6, <2>1, <2>3, <2>4, <3>2, <4>1
      <4> QED
        BY <2>1, <2>5, <2>6, <3>2, <4>1
    <3> QED
      BY <2>3, <2>4, <3>1, <3>2
  <2>8. HeldInv'
    BY <2>3, <2>7 DEF HeldInv, IsValue, DataOf, Apart
  <2> QED
    BY <1>3, <1>4, <1>5, <2>8 DEF StatesInv
<1> QED
  BY <1>8, <1>9, <1>2, MemoryFields

\* A call that gives somebody a state, and leaves the cache alone.
LEMMA HoldingKeepsStates ==
    ASSUME StatesInv, NEW m, NEW d, Mirrors(heap, m, d), Held(m, d),
           UNCHANGED <<setup, initial, cached, stored>>
    PROVE  StatesInv'
<1>1. /\ heap \in Seq(Data) /\ IsValue(heap, cached.value) /\ Apart(cached.value, initial)
      /\ \A k \in DOMAIN held : Apart(held[k].value, cached.value)
      /\ cached.count \in 0 .. stored
      /\ cached.count > 0 => DataOf(heap, cached.value) = Reference(Prefix(cached.count))
  BY DEF StatesInv, SetupInv, CachedInv, HeldInv
<1>2. /\ IsValue(m.heap, cached.value) /\ DataOf(m.heap, cached.value) = DataOf(heap, cached.value)
      /\ Apart(m.value, cached.value)
  BY <1>1, ValueKept
<1>3. /\ heap' = m.heap
      /\ held' = IF m.ok THEN Append(held, [value |-> m.value, expected |-> d]) ELSE held
      /\ setup' = setup /\ initial' = initial /\ stored' = stored /\ cached' = cached
  BY DEF Held
<1> QED
  BY <1>1, <1>2, <1>3, GrowingKeepsStates

LEMMA InitialMirrors ==
    ASSUME StatesInv
    PROVE  Mirrors(heap, copyOfInitial(heap), <<>>)
<1>1. /\ heap \in Seq(Data) /\ IsValue(heap, initial) /\ DataOf(heap, initial) = <<>>
      /\ <<>> \in Data /\ Len(heap) \in Nat
  BY DEF StatesInv, SetupInv, InitialInv, Data
<1>2. CASE sharesData(initial) /\ ~setup.hasClone
  <2> DEFINE m == [heap |-> heap, value |-> Nil, ok |-> FALSE]
  <2>1. copyOfInitial(heap) = m
    BY <1>2 DEF copyOfInitial, Failed, Memory
  <2>2. Nil \in Values /\ Nil.ref = 0 /\ Nil.ref <= Len(heap)
    BY <1>1 DEF Nil, Values
  <2>3. m \in Memories
    BY <1>1, <2>2, IsMemory
  <2>4. m.heap = heap /\ m.value.ref = 0 /\ ~m.ok
    BY <2>2
  <2> HIDE DEF m
  <2>5. Mirrors(heap, m, <<>>)
    BY <1>1, <2>3, <2>4 DEF Mirrors
  <2> QED
    BY <2>1, <2>5
<1>3. CASE ~(sharesData(initial) /\ ~setup.hasClone)
  <2>1. copyOfInitial(heap) = copyOf(Memory(heap, initial))
    BY <1>3 DEF copyOfInitial
  <2>2. setup.hasClone \/ initial.ref = 0
    BY <1>3 DEF sharesData
  <2>3. initial \in Values /\ initial.ref <= Len(heap) /\ (setup.isValue => initial.ref = 0)
    BY <1>1 DEF IsValue
  <2>4. Mirrors(heap, copyOf(Memory(heap, initial)), DataOf(heap, initial))
    BY <1>1, <2>2, <2>3, CopyMirrors
  <2> QED
    BY <1>1, <2>1, <2>4
<1> QED
  BY <1>2, <1>3

LEMMA CopyOfValue ==
    ASSUME NEW h \in Seq(Data), NEW v, IsValue(h, v), isCopyable
    PROVE  Mirrors(h, copyOf(Memory(h, v)), DataOf(h, v))
<1>1. v \in Values /\ v.ref <= Len(h) /\ (setup.isValue => v.ref = 0)
  BY DEF IsValue
<1>2. setup.hasClone \/ v.ref = 0
  BY <1>1 DEF isCopyable
<1> QED
  BY <1>1, <1>2, CopyMirrors

LEMMA PrefixType ==
    ASSUME StatesInv, NEW n \in 0 .. Len(setup.log)
    PROVE  setup.log \in Seq(Types) /\ Len(setup.log) \in Nat /\ Prefix(n) \in Seq(Types)
<1>1. setup.log \in Seq(Types)
  BY StatesAssumption DEF StatesInv, SetupInv
<1> QED
  BY <1>1 DEF Prefix

LEMMA ReplayKeepsStates ==
    ASSUME StatesInv, NEW n \in 0 .. Len(setup.log), Replay(n) \/ ReplayStored(n)
    PROVE  StatesInv'
<1>1. setup \in Setups /\ IsBuilt(setup) /\ heap \in Seq(Data)
  BY DEF StatesInv, SetupInv
<1>2. Mirrors(heap, copyOfInitial(heap), <<>>)
  BY InitialMirrors
<1>3. Prefix(n) \in Seq(Types)
  BY PrefixType
<1>4. FromLatest(Prefix(n)) \in Seq(Types)
  BY <1>3, FromLatestIs
<1>5. /\ Folded(Evolved, <<>>, FromLatest(Prefix(n))) = Folded(Evolved, <<>>, Prefix(n))
      /\ Folded(EvolvedStored, <<>>, FromLatest(Prefix(n))) = Folded(EvolvedStored, <<>>, Prefix(n))
  BY <1>1, <1>3, FromLatestLeadsThere
<1>6. CASE Replay(n)
  <2> DEFINE m == Folded(evolveBy, copyOfInitial(heap), FromLatest(Prefix(n)))
             d == Folded(Evolved, <<>>, Prefix(n))
  <2>1. Mirrors(heap, m, Folded(Evolved, <<>>, FromLatest(Prefix(n))))
    BY <1>1, <1>2, <1>4, FoldedByMirrors
  <2>2. Held(m, d) /\ UNCHANGED <<setup, initial, cached, stored>>
    BY <1>6 DEF Replay
  <2>3. Mirrors(heap, m, d)
    BY <1>5, <2>1
  <2> HIDE DEF m, d
  <2> QED
    BY <2>2, <2>3, HoldingKeepsStates
<1>7. CASE ReplayStored(n)
  <2> DEFINE m == Folded(evolveByStored, copyOfInitial(heap), FromLatest(Prefix(n)))
             d == Reference(Prefix(n))
  <2>1. Mirrors(heap, m, Folded(EvolvedStored, <<>>, FromLatest(Prefix(n))))
    BY <1>1, <1>2, <1>4, FoldedStoredMirrors
  <2>2. Held(m, d) /\ UNCHANGED <<setup, initial, cached, stored>>
    BY <1>7 DEF ReplayStored
  <2>3. Mirrors(heap, m, d)
    BY <1>5, <2>1 DEF Reference
  <2> HIDE DEF m, d
  <2> QED
    BY <2>2, <2>3, HoldingKeepsStates
<1> QED
  BY <1>6, <1>7

LEMMA StepKeepsStates ==
    ASSUME StatesInv, NEW k \in DOMAIN held, NEW t \in Types, Step(k, t) \/ StepStored(k, t)
    PROVE  StatesInv'
<1>1. /\ setup \in Setups /\ heap \in Seq(Data) /\ IsValue(heap, held[k].value)
      /\ DataOf(heap, held[k].value) = held[k].expected
  BY DEF StatesInv, SetupInv, HeldInv
<1>2. UNCHANGED <<setup, initial, cached, stored>>
  BY DEF Step, StepStored
<1>3. CASE ~isCopyable
  <2>1. heap' = heap /\ held' = held
    BY <1>3 DEF Step, StepStored
  <2>2. Reference(Prefix(cached.count))' = Reference(Prefix(cached.count'))
    BY <1>2, ReferenceKept
  <2> QED
    BY <1>2, <2>1, <2>2
       DEF StatesInv, SetupInv, InitialInv, CachedInv, HeldInv, IsValue, DataOf, Apart, IsBuilt
<1>4. CASE isCopyable
  <2> DEFINE c == copyOf(Memory(heap, held[k].value))
  <2>1. Mirrors(heap, c, held[k].expected)
    BY <1>1, <1>4, CopyOfValue
  <2>2. CASE Step(k, t)
    <3> DEFINE m == evolveBy(c, t)
               d == Evolved(held[k].expected, t)
    <3>1. Mirrors(heap, m, d)
      BY <1>1, <2>1, EvolveMirrors
    <3>2. Held(m, d)
      BY <1>4, <2>2 DEF Step
    <3> HIDE DEF m, d
    <3> QED
      BY <1>2, <3>1, <3>2, HoldingKeepsStates
  <2>3. CASE StepStored(k, t)
    <3> DEFINE m == evolveByStored(c, t)
               d == EvolvedStored(held[k].expected, t)
    <3>1. Mirrors(heap, m, d)
      BY <1>1, <2>1, StoredMirrors
    <3>2. Held(m, d)
      BY <1>4, <2>3 DEF StepStored
    <3> HIDE DEF m, d
    <3> QED
      BY <1>2, <3>1, <3>2, HoldingKeepsStates
  <2> QED
    BY <2>2, <2>3
<1> QED
  BY <1>3, <1>4

LEMMA LoadKeepsStates ==
    ASSUME StatesInv, Load
    PROVE  StatesInv'
<1>1. /\ setup \in Setups /\ IsBuilt(setup) /\ heap \in Seq(Data) /\ stored \in 0 .. Len(setup.log)
      /\ IsValue(heap, cached.value) /\ IsValue(heap, initial)
      /\ cached.count \in 0 .. stored
      /\ cached.count > 0 => DataOf(heap, cached.value) = Reference(Prefix(cached.count))
      /\ \A k \in DOMAIN held : IsValue(heap, held[k].value)
  BY DEF StatesInv, SetupInv, InitialInv, CachedInv, HeldInv
<1>2. /\ setup.log \in Seq(Types) /\ Len(setup.log) \in Nat /\ Prefix(stored) \in Seq(Types)
      /\ <<>> \in Data
  BY <1>1, PrefixType DEF Data
<1> DEFINE start == copyOfInitial(heap)
           isCached == isCopyable /\ cached.count > 0
           folded == IF ~start.ok THEN start
                     ELSE IF isCached
                     THEN Folded(evolveByStored, copyOf(Memory(start.heap, cached.value)),
                                 SubSeq(setup.log, cached.count + 1, stored))
                     ELSE Folded(evolveByStored, start, FromLatest(Prefix(stored)))
           kept == copyOf(Memory(folded.heap, folded.value))
           d == Reference(Prefix(stored))
<1>3. IF folded.ok /\ isCopyable /\ stored > 0
      THEN /\ cached' = [count |-> stored, value |-> kept.value]
           /\ Held(Memory(kept.heap, folded.value), d)
      ELSE /\ Held(folded, d)
           /\ UNCHANGED cached
  BY DEF Load
<1>4. UNCHANGED <<setup, initial, stored>>
  BY DEF Load
<1>5. Mirrors(heap, start, <<>>)
  BY InitialMirrors
<1>6. d \in Data
  BY <1>1, <1>2, FoldedType DEF Reference
<1>7. Mirrors(heap, folded, d)
  <2>1. CASE ~start.ok
    <3>1. Mirrors(heap, start, d)
      BY <1>5, <1>6, <2>1 DEF Mirrors
    <3> QED
      BY <2>1, <3>1
  <2>2. CASE start.ok /\ isCached
    <3> DEFINE c == copyOf(Memory(start.heap, cached.value))
               p == SubSeq(setup.log, 1, cached.count)
               q == SubSeq(setup.log, cached.count + 1, stored)
    <3>1. start.heap \in Seq(Data)
      BY <1>5, MemoryFields DEF Mirrors
    <3>2. /\ IsValue(start.heap, cached.value)
          /\ DataOf(start.heap, cached.value) = Reference(p)
      BY <1>1, <1>5, <2>2, ValueKept DEF Prefix
    <3>3. Mirrors(start.heap, c, Reference(p))
      BY <2>2, <3>1, <3>2, CopyOfValue
    <3>4. q \in Seq(Types)
      BY <1>1, <1>2
    <3>5. Mirrors(start.heap, Folded(evolveByStored, c, q), Folded(EvolvedStored, Reference(p), q))
      BY <1>1, <3>1, <3>3, <3>4, FoldedStoredMirrors
    <3>6. Folded(EvolvedStored, Reference(p), q) = d
      BY <1>1, <1>2, FoldedOn DEF Reference, Prefix
    <3>7. Mirrors(heap, Folded(evolveByStored, c, q), d)
      BY <1>1, <1>5, <3>5, <3>6, MirrorsBehind
    <3> QED
      BY <2>2, <3>7
  <2>3. CASE start.ok /\ ~isCached
    <3>1. FromLatest(Prefix(stored)) \in Seq(Types)
      BY <1>2, FromLatestIs
    <3>2. Mirrors(heap, Folded(evolveByStored, start, FromLatest(Prefix(stored))),
                  Folded(EvolvedStored, <<>>, FromLatest(Prefix(stored))))
      BY <1>1, <1>5, <3>1, FoldedStoredMirrors
    <3>3. Folded(EvolvedStored, <<>>, FromLatest(Prefix(stored))) = d
      BY <1>1, <1>2, FromLatestLeadsThere DEF Reference
    <3> QED
      BY <2>3, <3>2, <3>3
  <2> QED
    BY <2>1, <2>2, <2>3
<1> HIDE DEF folded
<1>8. CASE ~(folded.ok /\ isCopyable /\ stored > 0)
  <2>1. Held(folded, d) /\ UNCHANGED <<setup, initial, cached, stored>>
    BY <1>3, <1>4, <1>8
  <2> HIDE DEF d
  <2> QED
    BY <1>7, <2>1, HoldingKeepsStates
<1>9. CASE folded.ok /\ isCopyable /\ stored > 0
  <2> DEFINE m == [heap |-> kept.heap, value |-> folded.value, ok |-> TRUE]
  <2> HIDE DEF d
  <2>1. folded \in Memories /\ DataOf(folded.heap, folded.value) = d
    BY <1>7, <1>9 DEF Mirrors
  <2>2. folded.heap \in Seq(Data) /\ IsValue(folded.heap, folded.value)
    BY <2>1, MemoryFields DEF IsValue
  <2>3. Mirrors(folded.heap, kept, d)
    BY <1>9, <2>1, <2>2, CopyOfValue
  <2>4. /\ IsValue(kept.heap, folded.value) /\ DataOf(kept.heap, folded.value) = d
        /\ Apart(folded.value, kept.value)
    BY <2>1, <2>2, <2>3, ValueKept
  <2>5. Mirrors(heap, kept, d)
    BY <1>1, <1>7, <2>3, MirrorsBehind
  <2> HIDE DEF kept
  <2>6. kept \in Memories /\ Len(heap) <= Len(kept.heap) /\ \A r \in 1 .. Len(heap) : kept.heap[r] = heap[r]
    BY <2>5 DEF Mirrors
  <2>7. kept.heap \in Seq(Data) /\ IsValue(kept.heap, kept.value)
    BY <2>6, MemoryFields DEF IsValue
  <2>8. m \in Memories
    BY <2>4, <2>7, IsMemory DEF IsValue
  <2>9. m.heap = kept.heap /\ m.value = folded.value /\ m.ok
    OBVIOUS
  <2>10. /\ cached' = [count |-> stored, value |-> kept.value]
         /\ Held(m, d)
    BY <1>3, <1>9 DEF Memory
  <2> HIDE DEF m
  <2>11. Mirrors(heap, m, d)
    BY <1>6, <1>7, <2>4, <2>6, <2>8, <2>9 DEF Mirrors
  <2>12. kept.ok
    BY <1>9 DEF kept, copyOf, Memory, Allocated
  <2>13. DataOf(kept.heap, kept.value) = d
    BY <2>5, <2>12 DEF Mirrors
  <2>14. cached'.value = kept.value /\ cached'.count = stored
    BY <2>10
  <2>15. Apart(cached'.value, initial) /\ \A k \in DOMAIN held : Apart(held[k].value, cached'.value)
    BY <1>1, <2>5, <2>14, ValueKept
  <2>16. /\ IsValue(m.heap, cached'.value) /\ Apart(m.value, cached'.value)
         /\ cached'.count \in 0 .. stored
         /\ DataOf(m.heap, cached'.value) = Reference(Prefix(cached'.count))
    BY <1>1, <1>2, <2>4, <2>7, <2>9, <2>13, <2>14 DEF d
  <2>17. /\ heap' = m.heap
         /\ held' = IF m.ok THEN Append(held, [value |-> m.value, expected |-> d]) ELSE held
         /\ setup' = setup /\ initial' = initial /\ stored' = stored
    BY <1>4, <2>10 DEF Held
  <2> QED
    BY <2>11, <2>15, <2>16, <2>17, GrowingKeepsStates
<1> QED
  BY <1>8, <1>9

\* What a change in place does to memory.
IsChanged(h, v, e, m) ==
    /\ m.heap \in Seq(Data) /\ IsValue(m.heap, m.value) /\ DataOf(m.heap, m.value) = e
    /\ \A w : IsValue(h, w) /\ Apart(w, v) =>
          /\ IsValue(m.heap, w) /\ DataOf(m.heap, w) = DataOf(h, w)
          /\ Apart(w, m.value) /\ Apart(m.value, w)

LEMMA ChangedIs ==
    ASSUME NEW h \in Seq(Data), NEW v, IsValue(h, v), NEW e \in Data,
           NEW m, m = Changed(Memory(h, v), e)
    PROVE  IsChanged(h, v, e, m)
<1>1. /\ Len(h) \in Nat /\ v \in Values /\ v.ref \in Nat /\ v.ref <= Len(h)
      /\ setup.isValue => v.ref = 0
  BY DEF IsValue, Values
<1>2. Memory(h, v).heap = h /\ Memory(h, v).value = v
  BY DEF Memory
<1>3. SUFFICES /\ m.heap \in Seq(Data) /\ IsValue(m.heap, m.value) /\ DataOf(m.heap, m.value) = e
               /\ Len(h) <= Len(m.heap)
               /\ \A r \in 1 .. Len(h) : r # v.ref => m.heap[r] = h[r]
               /\ m.value.ref = v.ref \/ m.value.ref > Len(h)
  <2> SUFFICES ASSUME NEW w, IsValue(h, w), Apart(w, v)
               PROVE  /\ IsValue(m.heap, w) /\ DataOf(m.heap, w) = DataOf(h, w)
                      /\ Apart(w, m.value) /\ Apart(m.value, w)
    BY <1>3 DEF IsChanged
  <2>1. w \in Values /\ w.ref \in Nat /\ w.ref <= Len(h) /\ (setup.isValue => w.ref = 0)
    BY DEF IsValue, Values
  <2>2. m.value.ref \in Nat /\ Len(m.heap) \in Nat
    BY <1>3 DEF IsValue, Values
  <2>3. IsValue(m.heap, w)
    BY <1>1, <1>3, <2>1, <2>2 DEF IsValue
  <2>4. w.ref # 0 => w.ref \in 1 .. Len(h) /\ w.ref # v.ref
    BY <1>1, <2>1 DEF Apart
  <2>5. DataOf(m.heap, w) = DataOf(h, w)
    BY <1>3, <2>4 DEF DataOf
  <2>6. Apart(w, m.value) /\ Apart(m.value, w)
    BY <1>1, <1>3, <2>1, <2>2, <2>4 DEF Apart
  <2> QED
    BY <2>3, <2>5, <2>6
<1>4. CASE setup.isValue
  <2> DEFINE new == [ref |-> 0, data |-> e]
  <2>1. m.heap = h /\ m.value = new
    BY <1>2, <1>4 DEF Changed, Memory
  <2>2. new \in Values /\ new.ref = 0 /\ new.data = e
    BY DEF Values
  <2> HIDE DEF new
  <2> QED
    BY <1>1, <1>4, <2>1, <2>2 DEF IsValue, DataOf
<1>5. CASE ~setup.isValue /\ v.ref = 0
  <2> DEFINE new == [ref |-> Len(h) + 1, data |-> <<>>]
             g == Append(h, e)
  <2>1. m.heap = g /\ m.value = new
    BY <1>2, <1>5 DEF Changed, Allocated, Memory
  <2>2. new \in Values /\ new.ref = Len(h) + 1
    BY <1>1 DEF Values, Data
  <2>3. g \in Seq(Data) /\ Len(g) = Len(h) + 1 /\ g[Len(h) + 1] = e /\ \A r \in 1 .. Len(h) : g[r] = h[r]
    OBVIOUS
  <2> HIDE DEF new, g
  <2> QED
    BY <1>1, <1>5, <2>1, <2>2, <2>3 DEF IsValue, DataOf
<1>6. CASE ~setup.isValue /\ v.ref # 0
  <2> DEFINE g == [h EXCEPT ![v.ref] = e]
  <2>1. m.heap = g /\ m.value = v
    BY <1>2, <1>6 DEF Changed, Memory
  <2>2. v.ref \in 1 .. Len(h)
    BY <1>1, <1>6
  <2>3. /\ g \in Seq(Data) /\ Len(g) = Len(h) /\ g[v.ref] = e
        /\ \A r \in 1 .. Len(h) : r # v.ref => g[r] = h[r]
    BY <2>2
  <2> HIDE DEF g
  <2> QED
    BY <1>1, <1>6, <2>1, <2>2, <2>3 DEF IsValue, DataOf
<1> QED
  BY <1>4, <1>5, <1>6

LEMMA ChangeKeepsStates ==
    ASSUME StatesInv, NEW k \in DOMAIN held, NEW t \in Types, Change(k, t)
    PROVE  StatesInv'
<1>1. heap \in Seq(Data) /\ held \in Seq([value : Values, expected : Data])
  BY DEF StatesInv, SetupInv, HeldInv
<1>2. \A j \in DOMAIN held :
         /\ IsValue(heap, held[j].value)
         /\ DataOf(heap, held[j].value) = held[j].expected
         /\ Apart(held[j].value, initial) /\ Apart(held[j].value, cached.value)
         /\ \A l \in DOMAIN held : j # l => Apart(held[j].value, held[l].value)
  BY DEF StatesInv, HeldInv
<1> DEFINE v == held[k].value
           e == Append(held[k].expected, t)
           m == Changed(Memory(heap, v), e)
           new == [value |-> m.value, expected |-> e]
<1>3. /\ heap' = m.heap /\ held' = [held EXCEPT ![k] = new]
      /\ UNCHANGED <<setup, initial, cached, stored>>
  BY <1>2 DEF Change
<1>4. held[k].expected \in Data /\ e \in Data /\ IsValue(heap, v)
  <2>1. held[k] \in [value : Values, expected : Data]
    <3> DEFINE Records == [value : Values, expected : Data]
    <3>1. held \in Seq(Records)
      BY <1>1
    <3> HIDE DEF Records
    <3>2. held[k] \in Records
      BY <3>1
    <3> QED
      BY <3>2 DEF Records
  <2>2. held[k].expected \in Data
    BY <2>1
  <2>3. e \in Data
    BY <2>2 DEF Data
  <2> QED
    BY <1>2, <2>2, <2>3
<1>m. m = Changed(Memory(heap, v), e)
  OBVIOUS
<1> HIDE DEF e, m, v
<1>c. IsChanged(heap, v, e, m)
  BY <1>1, <1>4, <1>m, ChangedIs
<1>5. /\ m.heap \in Seq(Data) /\ IsValue(m.heap, m.value) /\ DataOf(m.heap, m.value) = e
      /\ \A w : IsValue(heap, w) /\ Apart(w, v) =>
            /\ IsValue(m.heap, w) /\ DataOf(m.heap, w) = DataOf(heap, w)
            /\ Apart(w, m.value) /\ Apart(m.value, w)
  BY <1>c DEF IsChanged
<1>6. new \in [value : Values, expected : Data] /\ new.value = m.value /\ new.expected = e
  BY <1>4, <1>5 DEF IsValue
<1> HIDE DEF new
<1>7. /\ held' \in Seq([value : Values, expected : Data]) /\ DOMAIN held' = DOMAIN held
      /\ held'[k] = new /\ \A j \in DOMAIN held : j # k => held'[j] = held[j]
  <2> DEFINE Records == [value : Values, expected : Data]
  <2>1. held \in Seq(Records) /\ new \in Records
    BY <1>1, <1>6
  <2> HIDE DEF Records
  <2>2. /\ held' \in Seq(Records) /\ DOMAIN held' = DOMAIN held
        /\ held'[k] = new /\ \A j \in DOMAIN held : j # k => held'[j] = held[j]
    BY <1>3, <2>1
  <2> QED
    BY <2>2 DEF Records
<1>8. SetupInv'
  BY <1>3, <1>5 DEF StatesInv, SetupInv, IsBuilt
<1>9. /\ IsValue(heap, initial) /\ DataOf(heap, initial) = <<>> /\ Apart(v, initial)
      /\ IsValue(heap, cached.value) /\ Apart(v, cached.value)
  BY <1>2 DEF StatesInv, InitialInv, CachedInv, v
<1>10. Apart(initial, v) /\ Apart(cached.value, v)
  BY <1>9 DEF Apart
<1>11. /\ IsValue(m.heap, initial) /\ DataOf(m.heap, initial) = <<>> /\ Apart(m.value, initial)
       /\ IsValue(m.heap, cached.value) /\ DataOf(m.heap, cached.value) = DataOf(heap, cached.value)
       /\ Apart(m.value, cached.value)
  BY <1>5, <1>9, <1>10
<1>12. InitialInv'
  BY <1>3, <1>11 DEF InitialInv, IsValue, DataOf
<1>13. CachedInv'
  <2>1. Reference(Prefix(cached.count))' = Reference(Prefix(cached.count'))
    BY <1>3, ReferenceKept
  <2>2. /\ Apart(cached.value, initial) /\ cached.count \in 0 .. stored
        /\ cached.count > 0 => DataOf(heap, cached.value) = Reference(Prefix(cached.count))
    BY DEF StatesInv, CachedInv
  <2> QED
    BY <1>3, <1>11, <2>1, <2>2 DEF CachedInv, IsValue, DataOf, Apart
<1>14. \A j \in DOMAIN held : j # k =>
          /\ IsValue(m.heap, held[j].value)
          /\ DataOf(m.heap, held[j].value) = held[j].expected
          /\ Apart(held[j].value, m.value) /\ Apart(m.value, held[j].value)
  BY <1>2, <1>5 DEF v
<1>15. ASSUME NEW j \in DOMAIN held'
       PROVE  /\ IsValue(m.heap, held'[j].value)
              /\ DataOf(m.heap, held'[j].value) = held'[j].expected
              /\ Apart(held'[j].value, initial) /\ Apart(held'[j].value, cached.value)
              /\ \A l \in DOMAIN held' : j # l => Apart(held'[j].value, held'[l].value)
  <2>1. CASE j = k
    BY <1>5, <1>6, <1>7, <1>11, <1>14, <2>1
  <2>2. CASE j # k
    <3>1. j \in DOMAIN held /\ held'[j] = held[j]
      BY <1>7, <2>2
    <3>2. ASSUME NEW l \in DOMAIN held', j # l
          PROVE  Apart(held'[j].value, held'[l].value)
      <4>1. CASE l = k
        BY <1>6, <1>7, <1>14, <2>2, <3>1, <4>1
      <4>2. CASE l # k
        BY <1>2, <1>7, <3>1, <3>2, <4>2
      <4> QED
        BY <4>1, <4>2
    <3> QED
      BY <1>2, <1>14, <2>2, <3>1, <3>2
  <2> QED
    BY <2>1, <2>2
<1>16. HeldInv'
  BY <1>3, <1>7, <1>15 DEF HeldInv, IsValue, DataOf, Apart
<1> QED
  BY <1>8, <1>12, <1>13, <1>16 DEF StatesInv

LEMMA CallKeepsStates ==
    ASSUME StatesInv, [StatesNext]_stateVars
    PROVE  StatesInv'
<1>1. CASE /\ UNCHANGED <<setup, heap, initial, cached, held>>
           /\ stored' \in 0 .. Len(setup.log) /\ stored' >= stored
  <2>1. Reference(Prefix(cached.count))' = Reference(Prefix(cached.count'))
    BY <1>1, ReferenceKept
  <2>2. SetupInv' /\ InitialInv' /\ HeldInv'
    BY <1>1 DEF StatesInv, SetupInv, InitialInv, HeldInv, IsValue, DataOf, Apart, IsBuilt
  <2>3. cached'.count \in 0 .. stored'
    <3>1. cached.count \in 0 .. stored /\ stored \in 0 .. Len(setup.log)
      BY DEF StatesInv, SetupInv, CachedInv
    <3> QED
      BY <1>1, <3>1
  <2>4. CachedInv'
    BY <1>1, <2>1, <2>3 DEF StatesInv, CachedInv, IsValue, DataOf, Apart
  <2> QED
    BY <2>2, <2>4 DEF StatesInv
<1>2. stored \in 0 .. Len(setup.log) /\ Len(setup.log) \in Nat
  <2>1. setup.log \in Seq(Types)
    BY StatesAssumption DEF StatesInv, SetupInv
  <2> QED
    BY <2>1 DEF StatesInv, SetupInv
<1>3. CASE UNCHANGED stateVars
  BY <1>1, <1>2, <1>3 DEF stateVars
<1>4. CASE StoreNext
  BY <1>1, <1>2, <1>4 DEF StoreNext
<1>5. CASE Load
  BY <1>5, LoadKeepsStates
<1>6. CASE \E n \in 0 .. Len(setup.log) : Replay(n) \/ ReplayStored(n)
  BY <1>6, ReplayKeepsStates
<1>7. CASE \E k \in DOMAIN held, t \in Types : Step(k, t) \/ StepStored(k, t) \/ Change(k, t)
  BY <1>7, StepKeepsStates, ChangeKeepsStates
<1> QED
  BY <1>3, <1>4, <1>5, <1>6, <1>7 DEF StatesNext

LEMMA StatesInitInv == StatesInit => StatesInv
<1> SUFFICES ASSUME StatesInit
             PROVE  StatesInv
  OBVIOUS
<1>1. /\ setup \in Setups /\ IsBuilt(setup) /\ cached = NotCached /\ stored = 0 /\ held = <<>>
      /\ IF setup.sharesInitial
         THEN heap = <<<<>>>> /\ initial = [ref |-> 1, data |-> <<>>]
         ELSE heap = <<>> /\ initial = Nil
  BY DEF StatesInit
<1>2. setup.log \in Seq(Types)
  BY <1>1, StatesAssumption
<1>3. <<>> \in Data /\ Nil \in Values /\ Nil.ref = 0 /\ Nil.data = <<>>
  BY DEF Nil, Values, Data
<1>4. [ref |-> 1, data |-> <<>>] \in Values
  BY <1>3 DEF Values
<1>5. heap \in Seq(Data) /\ Len(heap) \in Nat /\ IsValue(heap, initial) /\ DataOf(heap, initial) = <<>>
  <2>1. CASE setup.sharesInitial
    <3>1. ~setup.isValue
      BY <1>1, <2>1 DEF IsBuilt
    <3>2. <<<<>>>> \in Seq(Data) /\ Len(<<<<>>>>) = 1 /\ <<<<>>>>[1] = <<>>
      BY <1>3
    <3>3. initial \in Values /\ initial.ref = 1
      BY <1>1, <1>4, <2>1
    <3>4. heap \in Seq(Data) /\ Len(heap) = 1 /\ heap[1] = <<>>
      BY <1>1, <2>1, <3>2
    <3> QED
      BY <3>1, <3>3, <3>4 DEF IsValue, DataOf
  <2>2. CASE ~setup.sharesInitial
    <3>1. <<>> \in Seq(Data) /\ Len(<<>>) = 0
      OBVIOUS
    <3> QED
      BY <1>1, <1>3, <2>2, <3>1 DEF IsValue, DataOf
  <2> QED
    BY <2>1, <2>2
<1>6. SetupInv
  BY <1>1, <1>2, <1>5 DEF SetupInv
<1>7. cached.value = Nil /\ cached.count = 0
  BY <1>1 DEF NotCached
<1>8. CachedInv
  BY <1>1, <1>3, <1>5, <1>7 DEF CachedInv, IsValue, Apart
<1>9. HeldInv
  <2>1. <<>> \in Seq([value : Values, expected : Data]) /\ DOMAIN <<>> = {}
    OBVIOUS
  <2> QED
    BY <1>1, <2>1 DEF HeldInv
<1> QED
  BY <1>5, <1>6, <1>8, <1>9 DEF StatesInv, InitialInv

\* For any rules, upcasters and histories, with or without Clone, and however
\* many calls are made in whatever order: a caller holds the state that its own
\* calls lead to, the cached state is the history it covers, and the initial
\* value stays what it was (Replay, ReplayStored, Step, StepStored, fold).
THEOREM CallersHoldTheirOwn == Spec => []StatesAreIndependent
<1>1. Init => StatesInv
  BY StatesInitInv DEF Init
<1>2. StatesInv /\ [Next]_vars => StatesInv'
  <2> SUFFICES ASSUME StatesInv, [Next]_vars
               PROVE  StatesInv'
    OBVIOUS
  <2>1. [StatesNext]_stateVars
    BY DEF Next, Call, Answer, vars
  <2> QED
    BY <2>1, CallKeepsStates
<1>3. StatesInv => StatesAreIndependent
  BY DEF StatesInv, InitialInv, CachedInv, HeldInv, StatesAreIndependent
<1> QED
  BY <1>1, <1>2, <1>3, PTL DEF Spec

-----------------------------------------------------------------------------
(***************************************************************************)
(* What upcasters lead to.                                                 *)
(***************************************************************************)
Reach(t) == {t} \cup Leads(t)

\* Nothing that upcasting comes by fails or leads back to itself.
Sound(t) == \A u \in Reach(t) : setup.upcasters[u] # FailingUpcast /\ u \notin Leads(u)

LEMMA DirectIs ==
    ASSUME setup \in Setups, NEW t \in Types
    PROVE  /\ Direct(t) \subseteq Types
           /\ ~HasUpcaster(t) => Direct(t) = {}
           /\ HasUpcaster(t) /\ setup.upcasters[t] # FailingUpcast =>
                 /\ setup.upcasters[t] \in Seq(Types)
                 /\ \A k \in DOMAIN setup.upcasters[t] : setup.upcasters[t][k] \in Direct(t)
                 /\ \A u \in Direct(t) : \E k \in DOMAIN setup.upcasters[t] :
                       u = setup.upcasters[t][k]
<1> DEFINE ups == setup.upcasters[t]
<1>1. ups \in {NoUpcaster, FailingUpcast} \cup Seq(Types)
  BY StatesAssumption
<1>2. CASE ups \in {NoUpcaster, FailingUpcast}
  BY <1>2 DEF Direct, HasUpcaster
<1>3. CASE ups \notin {NoUpcaster, FailingUpcast}
  <2>1. ups \in Seq(Types) /\ \A k \in DOMAIN ups : ups[k] \in Types
    BY <1>1, <1>3
  <2>2. Direct(t) = {ups[k] : k \in DOMAIN ups}
    BY <1>3 DEF Direct, Range
  <2> HIDE DEF ups
  <2> QED
    BY <1>3, <2>1, <2>2 DEF ups, HasUpcaster
<1> QED
  BY <1>2, <1>3

LEMMA LeadsClosed ==
    ASSUME setup \in Setups, NEW t \in Types
    PROVE  /\ Direct(t) \subseteq Leads(t) /\ Leads(t) \subseteq Types
           /\ \A w \in Leads(t) : Direct(w) \subseteq Leads(t)
<1>1. \A w \in Types : Direct(w) \subseteq Types
  BY DirectIs
<1> QED
  BY <1>1, Zenon DEF Leads

LEMMA LeadsLeast ==
    ASSUME NEW t, NEW S \in SUBSET Types, Direct(t) \subseteq S, \A w \in S : Direct(w) \subseteq S
    PROVE  Leads(t) \subseteq S
BY Zenon DEF Leads

LEMMA ReachOver ==
    ASSUME setup \in Setups, NEW t \in Types, NEW u \in Direct(t)
    PROVE  Reach(u) \subseteq Leads(t)
<1>1. u \in Types /\ u \in Leads(t)
  BY DirectIs, LeadsClosed
<1>2. /\ Leads(t) \in SUBSET Types /\ Direct(u) \subseteq Leads(t)
      /\ \A w \in Leads(t) : Direct(w) \subseteq Leads(t)
  BY <1>1, LeadsClosed
<1>3. Leads(u) \subseteq Leads(t)
  BY <1>2, LeadsLeast
<1> QED
  BY <1>1, <1>3 DEF Reach

LEMMA ReachSplit ==
    ASSUME setup \in Setups, NEW t \in Types, NEW w \in Leads(t)
    PROVE  \E u \in Direct(t) : w \in Reach(u)
<1> DEFINE S == UNION {Reach(u) : u \in Direct(t)}
<1>1. \A u \in Direct(t) : u \in Types /\ u \in Reach(u) /\ Reach(u) \subseteq Types
  BY DirectIs, LeadsClosed DEF Reach
<1>2. S \in SUBSET Types /\ Direct(t) \subseteq S
  BY <1>1
<1>3. ASSUME NEW v \in S
      PROVE  Direct(v) \subseteq S
  <2>1. PICK u \in Direct(t) : v \in Reach(u)
    OBVIOUS
  <2>2. Direct(v) \subseteq Reach(u)
    BY <1>1, <2>1, LeadsClosed DEF Reach
  <2> QED
    BY <2>2
<1>4. Leads(t) \subseteq S
  <2> HIDE DEF S
  <2> QED
    BY <1>2, <1>3, LeadsLeast
<1> QED
  BY <1>4

\* Upcasting is sound from an event type on exactly if it is at the type and
\* from everything its upcaster makes of it on.
LEMMA SoundOver ==
    ASSUME setup \in Setups, NEW t \in Types, setup.upcasters[t] # FailingUpcast,
           \A u \in Direct(t) : Sound(u)
    PROVE  Sound(t)
<1>1. t \notin Leads(t)
  <2> SUFFICES ASSUME t \in Leads(t)
               PROVE  FALSE
    OBVIOUS
  <2>1. PICK u \in Direct(t) : t \in Reach(u)
    BY ReachSplit
  <2> QED
    BY <2>1 DEF Sound
<1>2. ASSUME NEW w \in Leads(t)
      PROVE  setup.upcasters[w] # FailingUpcast /\ w \notin Leads(w)
  <2>1. PICK u \in Direct(t) : w \in Reach(u)
    BY ReachSplit
  <2> QED
    BY <2>1 DEF Sound
<1> QED
  BY <1>1, <1>2, Zenon DEF Sound, Reach

LEMMA SoundBelow ==
    ASSUME setup \in Setups, NEW t \in Types, Sound(t), NEW u \in Direct(t)
    PROVE  Sound(u) /\ t \notin Reach(u)
<1>1. Reach(u) \subseteq Leads(t)
  BY ReachOver
<1> QED
  BY <1>1, Zenon DEF Sound, Reach

-----------------------------------------------------------------------------
(***************************************************************************)
(* Upcasting with a budget.                                                *)
(***************************************************************************)

\* What is made of an event type that has an upcaster.
LEMMA UpcastOnce ==
    ASSUME setup \in Setups, NEW n \in 0 .. MaxUpcastSteps, NEW t \in Types,
           applyWithBudget[n][t].ok, HasUpcaster(t)
    PROVE  /\ n > 0 /\ n - 1 \in 0 .. MaxUpcastSteps /\ setup.upcasters[t] # FailingUpcast
           /\ \A u \in Direct(t) : applyWithBudget[n - 1][u].ok
           /\ applyWithBudget[n][t].types =
                 FlattenSeq([k \in DOMAIN setup.upcasters[t] |->
                                applyWithBudget[n - 1][setup.upcasters[t][k]].types])
<1> DEFINE ups == setup.upcasters[t]
           less == applyWithBudget[n - 1]
           further == Further(less, t)
<1>1. applyWithBudget[n][t] = UpcastWith(n, less, t)
  BY BudgetSteps
<1>2. NoOutcome.ok = FALSE
  BY DEF NoOutcome
<1>3. ~(n <= 0 \/ ups = FailingUpcast) /\ \A k \in DOMAIN further : further[k].ok
  BY <1>1, <1>2 DEF UpcastWith
<1>4. UpcastWith(n, less, t) =
         [ok |-> TRUE, types |-> FlattenSeq([k \in DOMAIN further |-> further[k].types])]
  BY <1>3 DEF UpcastWith
<1>5. n > 0 /\ n - 1 \in 0 .. MaxUpcastSteps
  BY <1>3, StatesAssumption
<1>6. DOMAIN further = DOMAIN ups /\ \A k \in DOMAIN ups : further[k] = less[ups[k]]
  BY DEF Further
<1>7. \A u \in Direct(t) : \E k \in DOMAIN ups : u = ups[k]
  BY <1>3, DirectIs
<1> HIDE DEF further, less, ups
<1>8. \A u \in Direct(t) : less[u].ok
  BY <1>3, <1>6, <1>7
<1>9. [k \in DOMAIN further |-> further[k].types] = [k \in DOMAIN ups |-> less[ups[k]].types]
  BY <1>6
<1>10. applyWithBudget[n][t].types = FlattenSeq([k \in DOMAIN ups |-> less[ups[k]].types])
  BY <1>1, <1>4, <1>9
<1> QED
  BY <1>3, <1>5, <1>8, <1>10 DEF less, ups

LEMMA NoBudget ==
    ASSUME setup \in Setups, NEW t \in Types, applyWithBudget[0][t].ok
    PROVE  ~HasUpcaster(t)
<1>1. 0 \in 0 .. MaxUpcastSteps
  BY StatesAssumption
<1>2. \A n \in 0 .. MaxUpcastSteps : applyWithBudget[n][t].ok /\ HasUpcaster(t) => n > 0
  BY UpcastOnce
<1> QED
  BY <1>1, <1>2

\* A larger budget makes the same of an event.
LEMMA LargerBudget ==
    ASSUME setup \in Setups
    PROVE  \A n \in Nat : n + 1 <= MaxUpcastSteps =>
              \A t \in Types : applyWithBudget[n][t].ok =>
                  applyWithBudget[n + 1][t] = applyWithBudget[n][t]
<1> DEFINE A(n) == applyWithBudget[n]
           S == {n \in Nat : n + 1 <= MaxUpcastSteps =>
                    \A t \in Types : A(n)[t].ok => A(n + 1)[t] = A(n)[t]}
<1>0. MaxUpcastSteps \in Nat
  BY StatesAssumption
<1>1. ASSUME NEW n \in Nat, n + 1 <= MaxUpcastSteps, NEW t \in Types, ~HasUpcaster(t)
      PROVE  A(n + 1)[t] = A(n)[t]
  <2>1. n \in 0 .. MaxUpcastSteps /\ n + 1 \in 0 .. MaxUpcastSteps
    BY <1>0, <1>1
  <2>2. A(n)[t] = UpcastWith(n, A(n - 1), t)
    BY <2>1, BudgetSteps
  <2>3. A(n + 1)[t] = UpcastWith(n + 1, A((n + 1) - 1), t)
    BY <2>1, BudgetSteps
  <2> QED
    BY <1>1, <2>2, <2>3 DEF UpcastWith
<1>2. 0 \in S
  <2> SUFFICES ASSUME 0 + 1 <= MaxUpcastSteps, NEW t \in Types, A(0)[t].ok
               PROVE  A(0 + 1)[t] = A(0)[t]
    OBVIOUS
  <2>1. 0 \in 0 .. MaxUpcastSteps
    BY <1>0
  <2>2. ~HasUpcaster(t)
    BY <2>1, NoBudget
  <2> QED
    BY <1>1, <2>2
<1>3. ASSUME NEW n \in Nat, n \in S
      PROVE  n + 1 \in S
  <2> SUFFICES ASSUME (n + 1) + 1 <= MaxUpcastSteps, NEW t \in Types, A(n + 1)[t].ok
               PROVE  A((n + 1) + 1)[t] = A(n + 1)[t]
    OBVIOUS
  <2>1. /\ n + 1 \in Nat /\ (n + 1) + 1 \in Nat /\ n + 1 <= MaxUpcastSteps
        /\ n + 1 \in 0 .. MaxUpcastSteps /\ (n + 1) + 1 \in 0 .. MaxUpcastSteps
        /\ (n + 1) - 1 = n /\ ((n + 1) + 1) - 1 = n + 1 /\ ~(n + 1 <= 0) /\ ~((n + 1) + 1 <= 0)
    BY <1>0
  <2>2. CASE ~HasUpcaster(t)
    BY <1>1, <2>1, <2>2
  <2>3. CASE HasUpcaster(t)
    <3> DEFINE ups == setup.upcasters[t]
    <3>1. ups # FailingUpcast /\ \A u \in Direct(t) : A(n)[u].ok
      <4>1. \A m \in 0 .. MaxUpcastSteps : A(m)[t].ok =>
               ups # FailingUpcast /\ \A u \in Direct(t) : A(m - 1)[u].ok
        BY <2>3, UpcastOnce
      <4> QED
        BY <2>1, <4>1
    <3>2. \A k \in DOMAIN ups : ups[k] \in Types /\ ups[k] \in Direct(t)
      BY <2>3, <3>1, DirectIs
    <3>3. \A k \in DOMAIN ups : A(n + 1)[ups[k]] = A(n)[ups[k]]
      BY <1>3, <2>1, <3>1, <3>2
    <3>4. Further(A(n + 1), t) = Further(A(n), t)
      BY <3>3 DEF Further
    <3>5. A(n + 1)[t] = UpcastWith(n + 1, A(n), t)
      BY <2>1, BudgetSteps
    <3>6. A((n + 1) + 1)[t] = UpcastWith((n + 1) + 1, A(n + 1), t)
      BY <2>1, BudgetSteps
    <3> QED
      BY <2>1, <3>4, <3>5, <3>6 DEF UpcastWith
  <2> QED
    BY <2>2, <2>3
<1>4. \A n \in Nat : n \in S
  <2> HIDE DEF S
  <2> QED
    BY <1>2, <1>3, Induct
<1> QED
  BY <1>4

\* Upcasting that ends well comes by nothing that fails or leads back to
\* itself, and leaves no event that has an upcaster.
LEMMA UpcastEndsWell ==
    ASSUME setup \in Setups
    PROVE  \A n \in Nat : n <= MaxUpcastSteps =>
              \A t \in Types : applyWithBudget[n][t].ok =>
                  /\ Sound(t)
                  /\ applyWithBudget[n][t].types \in Seq({u \in Types : ~HasUpcaster(u)})
<1> DEFINE A(n) == applyWithBudget[n]
           Current == {u \in Types : ~HasUpcaster(u)}
           Good(n, t) == Sound(t) /\ A(n)[t].types \in Seq(Current)
           S == {n \in Nat : n <= MaxUpcastSteps => \A t \in Types : A(n)[t].ok => Good(n, t)}
<1>0. MaxUpcastSteps \in Nat
  BY StatesAssumption
<1>1. ASSUME NEW n \in Nat, n <= MaxUpcastSteps, NEW t \in Types, ~HasUpcaster(t)
      PROVE  Good(n, t)
  <2>1. n \in 0 .. MaxUpcastSteps
    BY <1>0, <1>1
  <2>2. A(n)[t] = UpcastWith(n, A(n - 1), t)
    BY <2>1, BudgetSteps
  <2>3. A(n)[t].types = <<t>> /\ t \in Current
    BY <1>1, <2>2 DEF UpcastWith
  <2>4. Direct(t) = {}
    BY <1>1, DirectIs
  <2>5. setup.upcasters[t] # FailingUpcast
    BY <1>1, StatesAssumption DEF HasUpcaster
  <2>6. Sound(t)
    BY <2>4, <2>5, SoundOver
  <2> HIDE DEF Current
  <2>7. <<t>> \in Seq(Current)
    BY <2>3
  <2> QED
    BY <2>3, <2>6, <2>7
<1>2. 0 \in S
  <2> SUFFICES ASSUME 0 <= MaxUpcastSteps, NEW t \in Types, A(0)[t].ok
               PROVE  Good(0, t)
    OBVIOUS
  <2>1. 0 \in 0 .. MaxUpcastSteps
    BY <1>0
  <2>2. ~HasUpcaster(t)
    BY <2>1, NoBudget
  <2> QED
    BY <1>1, <2>2
<1>3. ASSUME NEW n \in Nat, n \in S
      PROVE  n + 1 \in S
  <2> SUFFICES ASSUME n + 1 <= MaxUpcastSteps, NEW t \in Types, A(n + 1)[t].ok
               PROVE  Good(n + 1, t)
    OBVIOUS
  <2>1. /\ n + 1 \in Nat /\ n <= MaxUpcastSteps /\ n + 1 \in 0 .. MaxUpcastSteps /\ (n + 1) - 1 = n
    BY <1>0
  <2>2. CASE ~HasUpcaster(t)
    BY <1>1, <2>1, <2>2
  <2>3. CASE HasUpcaster(t)
    <3> DEFINE ups == setup.upcasters[t]
               ss == [k \in DOMAIN ups |-> A(n)[ups[k]].types]
    <3>1. /\ ups # FailingUpcast /\ \A u \in Direct(t) : A(n)[u].ok
          /\ A(n + 1)[t].types = FlattenSeq(ss)
      BY <2>1, <2>3, UpcastOnce
    <3>2. ups \in Seq(Types) /\ \A k \in DOMAIN ups : ups[k] \in Types /\ ups[k] \in Direct(t)
      BY <2>3, <3>1, DirectIs
    <3>3. \A u \in Direct(t) : u \in Types /\ Good(n, u)
      BY <1>3, <2>1, <3>1, DirectIs
    <3>4. Sound(t)
      BY <3>1, <3>3, SoundOver
    <3>5. \A k \in DOMAIN ups : ss[k] \in Seq(Current)
      BY <3>2, <3>3
    <3>6. DOMAIN ups = 1 .. Len(ups) /\ Len(ups) \in Nat
      BY <3>2
    <3> HIDE DEF Current, ups
    <3>7. ss \in Seq(Seq(Current))
      <4>1. ss = [k \in 1 .. Len(ups) |-> ss[k]]
        BY <3>6
      <4>2. \A k \in 1 .. Len(ups) : ss[k] \in Seq(Current)
        BY <3>5, <3>6
      <4> HIDE DEF ss
      <4> QED
        BY <3>6, <4>1, <4>2
    <3> HIDE DEF ss
    <3>8. FlattenSeq(ss) \in Seq(Current)
      BY <3>7, FlattenType
    <3> QED
      BY <3>1, <3>4, <3>8
  <2> QED
    BY <2>2, <2>3
<1>4. \A n \in Nat : n \in S
  <2> HIDE DEF S
  <2> QED
    BY <1>2, <1>3, Induct
<1> QED
  BY <1>4

\* The event types with an upcaster that upcasting an event may come by.
Older(t) == {u \in Reach(t) : HasUpcaster(u)}

\* A budget of a step for each of them is enough.
LEMMA BudgetSuffices ==
    ASSUME setup \in Setups
    PROVE  \A n \in Nat : n <= MaxUpcastSteps =>
              \A t \in Types :
                  Sound(t) /\ IsFiniteSet(Older(t)) /\ Cardinality(Older(t)) <= n
                      => applyWithBudget[n][t].ok
<1> DEFINE A(n) == applyWithBudget[n]
           Fits(n, t) == Sound(t) /\ IsFiniteSet(Older(t)) /\ Cardinality(Older(t)) <= n
           S == {n \in Nat : n <= MaxUpcastSteps => \A t \in Types : Fits(n, t) => A(n)[t].ok}
<1>0. MaxUpcastSteps \in Nat
  BY StatesAssumption
<1>2. ASSUME NEW n \in Nat, n <= MaxUpcastSteps, NEW t \in Types, ~HasUpcaster(t)
      PROVE  A(n)[t].ok
  <2>1. n \in 0 .. MaxUpcastSteps
    BY <1>0, <1>2
  <2>2. A(n)[t] = UpcastWith(n, A(n - 1), t)
    BY <2>1, BudgetSteps
  <2> QED
    BY <1>2, <2>2 DEF UpcastWith
<1>3. 0 \in S
  <2> SUFFICES ASSUME 0 <= MaxUpcastSteps, NEW t \in Types, Fits(0, t)
               PROVE  A(0)[t].ok
    OBVIOUS
  <2>1. Cardinality(Older(t)) = 0
    BY FS_CardinalityType
  <2>2. Older(t) = {}
    BY <2>1, FS_EmptySet
  <2>3. ~HasUpcaster(t)
    BY <2>2 DEF Older, Reach
  <2> QED
    BY <1>2, <2>3
<1>4. ASSUME NEW n \in Nat, n \in S
      PROVE  n + 1 \in S
  <2> SUFFICES ASSUME n + 1 <= MaxUpcastSteps, NEW t \in Types, Fits(n + 1, t)
               PROVE  A(n + 1)[t].ok
    OBVIOUS
  <2>1. /\ n + 1 \in Nat /\ n <= MaxUpcastSteps /\ n + 1 \in 0 .. MaxUpcastSteps
        /\ (n + 1) - 1 = n /\ ~(n + 1 <= 0)
    BY <1>0
  <2>2. CASE ~HasUpcaster(t)
    BY <1>2, <2>1, <2>2
  <2>3. CASE HasUpcaster(t)
    <3> DEFINE ups == setup.upcasters[t]
    <3>1. ups # FailingUpcast
      BY DEF Sound, Reach
    <3>2. ASSUME NEW u \in Direct(t)
          PROVE  A(n)[u].ok
      <4>1. u \in Types /\ Sound(u) /\ t \notin Reach(u) /\ Reach(u) \subseteq Leads(t)
        BY DirectIs, SoundBelow, ReachOver
      <4>2. Older(u) \subseteq Older(t) \ {t} /\ t \in Older(t)
        BY <2>3, <4>1 DEF Older, Reach
      <4>3. /\ IsFiniteSet(Older(t) \ {t})
            /\ Cardinality(Older(t) \ {t}) = Cardinality(Older(t)) - 1
        BY <4>2, FS_RemoveElement
      <4>4. IsFiniteSet(Older(u)) /\ Cardinality(Older(u)) <= Cardinality(Older(t) \ {t})
        BY <4>2, <4>3, FS_Subset
      <4>5. Cardinality(Older(u)) \in Nat /\ Cardinality(Older(t)) \in Nat
        BY <4>4, FS_CardinalityType
      <4>6. Cardinality(Older(u)) <= n
        BY <4>3, <4>4, <4>5
      <4> QED
        BY <1>4, <2>1, <4>1, <4>4, <4>6
    <3>3. \A k \in DOMAIN ups : A(n)[ups[k]].ok
      BY <2>3, <3>1, <3>2, DirectIs
    <3>4. \A k \in DOMAIN Further(A(n), t) : Further(A(n), t)[k].ok
      BY <3>3 DEF Further
    <3>5. A(n + 1)[t] = UpcastWith(n + 1, A(n), t)
      BY <2>1, BudgetSteps
    <3> QED
      BY <2>1, <2>3, <3>1, <3>4, <3>5 DEF UpcastWith
  <2> QED
    BY <2>2, <2>3
<1>5. \A n \in Nat : n \in S
  <2> HIDE DEF S
  <2> QED
    BY <1>3, <1>4, Induct
<1> QED
  BY <1>5

\* The budget has a step for each event type with an upcaster that upcasting an
\* event may come by.
BudgetFits ==
    \A t \in Types : IsFiniteSet(Older(t)) /\ Cardinality(Older(t)) <= MaxUpcastSteps

LEMMA UpcastCompletes ==
    ASSUME setup \in Setups, BudgetFits
    PROVE  UpcastIsComplete
<1> DEFINE N == MaxUpcastSteps
           A(n) == applyWithBudget[n]
<1>1. N \in Nat /\ N <= N /\ N \in 0 .. N
  BY StatesAssumption
<1>3. \A t : apply(t) = A(N)[t]
  BY DEF apply
<1>4. ASSUME NEW t \in Types
      PROVE  apply(t).ok <=> Sound(t)
  <2>1. apply(t).ok => Sound(t)
    BY <1>1, <1>3, UpcastEndsWell
  <2>2. Sound(t) => apply(t).ok
    BY <1>1, <1>3, BudgetSuffices DEF BudgetFits
  <2> QED
    BY <2>1, <2>2, ApplyType DEF Outcomes
<1>5. ASSUME NEW t \in Types, apply(t).ok
      PROVE  \A u \in Range(apply(t).types) : ~HasUpcaster(u)
  <2> DEFINE Current == {u \in Types : ~HasUpcaster(u)}
  <2>1. apply(t).types \in Seq(Current)
    BY <1>1, <1>3, <1>5, UpcastEndsWell
  <2>2. \A u \in Range(apply(t).types) : u \in Current
    <3> HIDE DEF Current
    <3> QED
      BY <2>1 DEF Range
  <2> QED
    BY <2>2
<1>6. ASSUME NEW t \in Types, apply(t).ok, HasUpcaster(t)
      PROVE  apply(t).types = FlattenSeq([k \in DOMAIN setup.upcasters[t] |->
                                             apply(setup.upcasters[t][k]).types])
  <2> DEFINE ups == setup.upcasters[t]
  <2>1. /\ N - 1 \in Nat /\ (N - 1) + 1 = N /\ ups # FailingUpcast
        /\ \A u \in Direct(t) : A(N - 1)[u].ok
        /\ apply(t).types = FlattenSeq([k \in DOMAIN ups |-> A(N - 1)[ups[k]].types])
    BY <1>1, <1>3, <1>6, UpcastOnce
  <2>2. \A k \in DOMAIN ups : ups[k] \in Types /\ A(N - 1)[ups[k]].ok
    BY <1>6, <2>1, DirectIs
  <2>3. \A k \in DOMAIN ups : A(N)[ups[k]] = A(N - 1)[ups[k]]
    BY <1>1, <2>1, <2>2, LargerBudget
  <2>4. \A k \in DOMAIN ups : apply(ups[k]).types = A(N - 1)[ups[k]].types
    BY <1>3, <2>3
  <2>5. [k \in DOMAIN ups |-> apply(ups[k]).types] = [k \in DOMAIN ups |-> A(N - 1)[ups[k]].types]
    BY <2>4
  <2> QED
    BY <2>1, <2>5
<1> QED
  BY <1>4, <1>5, <1>6, Zenon DEF UpcastIsComplete, Sound, Reach

\* For any set of upcasters, however an application registers them: if the
\* budget has a step for each event type with an upcaster that upcasting an event
\* may come by, upcasting fails exactly if an upcaster fails or leads back to its
\* own event type, and what it hands out is complete, current and in order
\* (applyWithBudget).
THEOREM UpcastingCompletes == Spec => [](BudgetFits => UpcastIsComplete)
<1>1. Init => setup \in Setups
  BY DEF Init, StatesInit
<1>2. setup \in Setups /\ [Next]_vars => (setup \in Setups)'
  BY DEF vars, Next, Call, Answer, stateVars, StatesNext, Replay, ReplayStored, Step, StepStored,
         Load, Change, StoreNext
<1>3. setup \in Setups => (BudgetFits => UpcastIsComplete)
  BY UpcastCompletes
<1> QED
  BY <1>1, <1>2, <1>3, PTL DEF Spec

-----------------------------------------------------------------------------
(***************************************************************************)
(* The numbers in a finite set, by how many are not greater.               *)
(***************************************************************************)
Upto(P, p) == {q \in P : q <= p}

LEMMA RanksGrow ==
    ASSUME NEW P \in SUBSET Nat, IsFiniteSet(P), NEW p \in P, NEW q \in P, p < q
    PROVE  Cardinality(Upto(P, p)) < Cardinality(Upto(P, q))
<1>1. Upto(P, q) \in SUBSET P /\ Upto(P, p) \in SUBSET Upto(P, q)
  <2>1. \A x \in P : x \in Nat /\ (x <= p => x <= q)
    OBVIOUS
  <2> QED
    BY <2>1 DEF Upto
<1>2. q \in Upto(P, q) /\ q \notin Upto(P, p)
  BY DEF Upto
<1>3. IsFiniteSet(Upto(P, q))
  BY <1>1, FS_Subset
<1>4. /\ IsFiniteSet(Upto(P, p))
      /\ Cardinality(Upto(P, p)) <= Cardinality(Upto(P, q))
      /\ Cardinality(Upto(P, q)) = Cardinality(Upto(P, p)) => Upto(P, q) = Upto(P, p)
  BY <1>1, <1>3, FS_Subset
<1>5. Cardinality(Upto(P, p)) \in Nat /\ Cardinality(Upto(P, q)) \in Nat
  BY <1>3, <1>4, FS_CardinalityType
<1> QED
  BY <1>2, <1>4, <1>5

LEMMA RankBounds ==
    ASSUME NEW P \in SUBSET Nat, IsFiniteSet(P), NEW p \in P
    PROVE  Cardinality(P) \in Nat /\ Cardinality(Upto(P, p)) \in 1 .. Cardinality(P)
<1>1. Upto(P, p) \in SUBSET P /\ p \in Upto(P, p)
  BY DEF Upto
<1>2. IsFiniteSet(Upto(P, p)) /\ Cardinality(Upto(P, p)) <= Cardinality(P)
  BY <1>1, FS_Subset
<1>3. Cardinality(Upto(P, p)) \in Nat /\ Cardinality(P) \in Nat
  BY <1>2, FS_CardinalityType
<1>4. Cardinality(Upto(P, p)) # 0
  BY <1>1, <1>2, FS_EmptySet
<1> QED
  BY <1>2, <1>3, <1>4

\* Every rank is that of just one number.
LEMMA RanksAreUnique ==
    ASSUME NEW P \in SUBSET Nat, IsFiniteSet(P), NEW p \in P, NEW q \in P,
           Cardinality(Upto(P, p)) = Cardinality(Upto(P, q))
    PROVE  p = q
<1>1. p \in Nat /\ q \in Nat
  OBVIOUS
<1>2. Cardinality(Upto(P, p)) \in Nat /\ Cardinality(Upto(P, q)) \in Nat
  BY RankBounds
<1>3. ~(p < q) /\ ~(q < p)
  BY <1>2, RanksGrow
<1> QED
  BY <1>1, <1>3

LEMMA RanksAreTaken ==
    ASSUME NEW P \in SUBSET Nat, IsFiniteSet(P), NEW n \in 1 .. Cardinality(P)
    PROVE  \E p \in P : Cardinality(Upto(P, p)) = n
<1> DEFINE N == Cardinality(P)
           f == [p \in P |-> Cardinality(Upto(P, p))]
<1>1. N \in Nat
  BY FS_CardinalityType
<1>2. f \in Injection(P, 1 .. N)
  <2>1. f \in [P -> 1 .. N]
    BY RankBounds
  <2>2. \A p, q \in P : f[p] = f[q] => p = q
    BY RanksAreUnique
  <2> QED
    BY <2>1, <2>2 DEF Injection, IsInjective
<1>3. IsFiniteSet(1 .. N) /\ Cardinality(1 .. N) = N
  BY <1>1, FS_Interval
<1>4. f \in Surjection(P, 1 .. N)
  BY <1>2, <1>3, FS_Injection
<1>5. \E p \in P : f[p] = n
  BY <1>4 DEF Surjection
<1> QED
  BY <1>5

LEMMA NthIs ==
    ASSUME NEW P \in SUBSET Nat, IsFiniteSet(P), NEW n \in 1 .. Cardinality(P)
    PROVE  Nth(P, n) \in P /\ Cardinality(Upto(P, Nth(P, n))) = n
<1>1. \E p \in P : Cardinality({q \in P : q <= p}) = n
  BY RanksAreTaken DEF Upto
<1>2. Nth(P, n) \in P /\ Cardinality({q \in P : q <= Nth(P, n)}) = n
  BY <1>1 DEF Nth
<1> QED
  BY <1>2 DEF Upto

LEMMA NthOfRank ==
    ASSUME NEW P \in SUBSET Nat, IsFiniteSet(P), NEW p \in P
    PROVE  Nth(P, Cardinality(Upto(P, p))) = p
<1>1. PICK n : n = Cardinality(Upto(P, p))
  OBVIOUS
<1>2. n \in 1 .. Cardinality(P)
  BY <1>1, RankBounds
<1>3. Nth(P, n) \in P /\ Cardinality(Upto(P, Nth(P, n))) = n
  BY <1>2, NthIs
<1>4. Nth(P, n) = p
  BY <1>1, <1>3, RanksAreUnique
<1> QED
  BY <1>1, <1>4

LEMMA NthGrows ==
    ASSUME NEW P \in SUBSET Nat, IsFiniteSet(P),
           NEW m \in 1 .. Cardinality(P), NEW n \in 1 .. Cardinality(P), m < n
    PROVE  Nth(P, m) < Nth(P, n)
<1> DEFINE p == Nth(P, m)
           q == Nth(P, n)
<1>1. p \in P /\ q \in P /\ Cardinality(Upto(P, p)) = m /\ Cardinality(Upto(P, q)) = n
  BY NthIs
<1> HIDE DEF p, q
<1>2. m \in Nat /\ n \in Nat /\ p \in Nat /\ q \in Nat
  <2>1. Cardinality(P) \in Nat
    BY FS_CardinalityType
  <2> QED
    BY <1>1, <2>1
<1>3. p # q /\ ~(q < p)
  BY <1>1, <1>2, RanksGrow
<1> QED
  BY <1>2, <1>3 DEF p, q

LEMMA AscendingIs ==
    ASSUME NEW P \in SUBSET Nat, IsFiniteSet(P)
    PROVE  /\ Cardinality(P) \in Nat /\ Ascending(P) \in Seq(P) /\ Len(Ascending(P)) = Cardinality(P)
           /\ DOMAIN Ascending(P) = 1 .. Cardinality(P)
           /\ \A n \in DOMAIN Ascending(P) : Ascending(P)[n] \in P
           /\ \A p \in P : \E n \in DOMAIN Ascending(P) : Ascending(P)[n] = p
           /\ \A m, n \in DOMAIN Ascending(P) : m < n => Ascending(P)[m] < Ascending(P)[n]
<1>1. PICK N : N = Cardinality(P)
  OBVIOUS
<1>2. N \in Nat
  BY <1>1, FS_CardinalityType
<1>3. PICK f : f = Ascending(P)
  OBVIOUS
<1>4. f = [n \in 1 .. N |-> Nth(P, n)]
  BY <1>1, <1>3 DEF Ascending
<1>5. \A n \in 1 .. N : Nth(P, n) \in P
  BY <1>1, NthIs
<1>6. f \in [1 .. N -> P]
  BY <1>4, <1>5
<1>7. f \in Seq(P) /\ Len(f) = N /\ DOMAIN f = 1 .. N
  BY <1>2, <1>6
<1>8. ASSUME NEW p \in P
      PROVE  \E n \in 1 .. N : f[n] = p
  <2>1. PICK n : n = Cardinality(Upto(P, p))
    OBVIOUS
  <2>2. n \in 1 .. N /\ Nth(P, n) = p
    BY <1>1, <2>1, RankBounds, NthOfRank
  <2> QED
    BY <1>4, <2>2
<1>9. \A m, n \in 1 .. N : m < n => f[m] < f[n]
  <2>1. \A m, n \in 1 .. N : m < n => Nth(P, m) < Nth(P, n)
    BY <1>1, NthGrows
  <2> QED
    BY <1>4, <2>1
<1> QED
  BY <1>1, <1>2, <1>3, <1>6, <1>7, <1>8, <1>9

LEMMA JoinOne ==
    ASSUME NEW S, NEW x \in Seq(S), NEW y \in Seq(S), Len(y) = 1
    PROVE  /\ x \o y \in Seq(S) /\ Len(x \o y) = Len(x) + 1
           /\ \A i \in 1 .. Len(x) : (x \o y)[i] = x[i]
           /\ (x \o y)[Len(x) + 1] = y[1]
<1>1. Len(x) \in Nat
  OBVIOUS
<1>2. /\ x \o y \in Seq(S) /\ Len(x \o y) = Len(x) + Len(y)
      /\ \A i \in 1 .. Len(x) + Len(y) :
            (x \o y)[i] = IF i <= Len(x) THEN x[i] ELSE y[i - Len(x)]
  BY ConcatProperties, Zenon
<1>3. Len(x) + 1 \in 1 .. Len(x) + Len(y) /\ ~(Len(x) + 1 <= Len(x)) /\ (Len(x) + 1) - Len(x) = 1
  BY <1>1
<1>4. (x \o y)[Len(x) + 1] = y[1]
  BY <1>2, <1>3
<1>5. \A i \in 1 .. Len(x) : i \in 1 .. Len(x) + Len(y) /\ i <= Len(x)
  BY <1>1
<1> QED
  BY <1>1, <1>2, <1>4, <1>5

LEMMA FlattenSingles ==
    ASSUME NEW S, NEW ss \in Seq(Seq(S)), \A i \in DOMAIN ss : Len(ss[i]) = 1
    PROVE  /\ FlattenSeq(ss) \in Seq(S) /\ Len(FlattenSeq(ss)) = Len(ss)
           /\ \A i \in DOMAIN ss : FlattenSeq(ss)[i] = ss[i][1]
<1>1. CASE Len(ss) = 0
  <2>1. FlattenSeq(ss) = ss /\ DOMAIN ss = {} /\ ss = <<>>
    BY <1>1 DEF FlattenSeq
  <2> QED
    BY <1>1, <2>1
<1>2. CASE Len(ss) # 0
  <2>1. PICK r : /\ r[1] = ss[1] /\ FlattenSeq(ss) = r[Len(ss)]
                 /\ \A n \in Nat : n > 0 /\ n < Len(ss) => r[n + 1] = r[n] \o ss[n + 1]
    BY <1>2, FlattenSteps
  <2>2. Len(ss) \in Nat /\ DOMAIN ss = 1 .. Len(ss)
    OBVIOUS
  <2>3. \A i \in 1 .. Len(ss) : ss[i] \in Seq(S) /\ Len(ss[i]) = 1
    <3>1. \A i \in 1 .. Len(ss) : ss[i] \in Seq(S)
      OBVIOUS
    <3> QED
      BY <2>2, <3>1, Zenon
  <2> DEFINE Flat(n) == /\ r[n] \in Seq(S) /\ Len(r[n]) = n
                        /\ \A i \in 1 .. n : r[n][i] = ss[i][1]
             T == {n \in Nat : n > 0 /\ n <= Len(ss) => Flat(n)}
  <2>4. 0 \in T
    OBVIOUS
  <2>5. ASSUME NEW n \in Nat, n \in T
        PROVE  n + 1 \in T
    <3> SUFFICES ASSUME n + 1 <= Len(ss)
                 PROVE  Flat(n + 1)
      OBVIOUS
    <3>1. n + 1 \in 1 .. Len(ss)
      BY <2>2
    <3>2. CASE n = 0
      <4>1. r[n + 1] = ss[1] /\ n + 1 = 1 /\ \A i \in 1 .. n + 1 : i = 1
        BY <2>1, <3>2
      <4> QED
        BY <2>3, <3>1, <4>1
    <3>3. CASE n # 0
      <4>1. n > 0 /\ n < Len(ss) /\ Flat(n)
        BY <2>2, <2>5, <3>3
      <4>2. r[n + 1] = r[n] \o ss[n + 1] /\ ss[n + 1] \in Seq(S) /\ Len(ss[n + 1]) = 1
        BY <2>1, <2>3, <3>1, <4>1
      <4>3. /\ r[n + 1] \in Seq(S) /\ Len(r[n + 1]) = n + 1
            /\ \A i \in 1 .. n : r[n + 1][i] = r[n][i]
            /\ r[n + 1][n + 1] = ss[n + 1][1]
        <5>1. PICK x \in Seq(S) : x = r[n]
          BY <4>1
        <5>2. PICK y \in Seq(S) : y = ss[n + 1]
          BY <4>2
        <5>3. r[n + 1] = x \o y /\ Len(x) = n /\ Len(y) = 1
          BY <4>1, <4>2, <5>1, <5>2
        <5>4. PICK z : z = x \o y
          OBVIOUS
        <5>5. /\ z \in Seq(S) /\ Len(z) = n + 1 /\ z[n + 1] = y[1]
              /\ \A i \in 1 .. n : z[i] = x[i]
          BY <5>3, <5>4, JoinOne, Zenon
        <5> QED
          BY <5>1, <5>2, <5>3, <5>4, <5>5, Zenon
      <4>4. ASSUME NEW i \in 1 .. n + 1
            PROVE  r[n + 1][i] = ss[i][1]
        <5>1. CASE i \in 1 .. n
          BY <4>1, <4>3, <5>1
        <5>2. CASE i = n + 1
          BY <4>3, <5>2
        <5>3. i \in 1 .. n \/ i = n + 1
          OBVIOUS
        <5> QED
          BY <5>1, <5>2, <5>3
      <4> QED
        BY <4>3, <4>4
    <3> QED
      BY <3>2, <3>3
  <2>6. \A n \in Nat : n \in T
    <3> HIDE DEF T
    <3> QED
      BY <2>4, <2>5, Induct
  <2>7. Flat(Len(ss))
    <3> HIDE DEF Flat
    <3> QED
      BY <1>2, <2>2, <2>6
  <2> QED
    BY <2>1, <2>2, <2>7
<1> QED
  BY <1>1, <1>2

-----------------------------------------------------------------------------
(***************************************************************************)
(* Subject schemes.                                                        *)
(***************************************************************************)
IsPlaceholder(segment) == segment.shape = "placeholder"

LEMMA PositionsAre ==
    ASSUME NEW scheme \in Seq(Segments)
    PROVE  LET pos == PlaceholderPositions(scheme)
           IN  /\ Len(pos) \in Nat /\ DOMAIN pos = 1 .. Len(pos)
               /\ \A k \in DOMAIN pos : pos[k] \in DOMAIN scheme /\ IsPlaceholder(scheme[pos[k]])
               /\ \A i \in DOMAIN scheme :
                     IsPlaceholder(scheme[i]) => \E k \in DOMAIN pos : pos[k] = i
               /\ \A k, l \in DOMAIN pos : pos[k] = pos[l] => k = l
               /\ \A k \in DOMAIN pos : pos[1] <= pos[k]
<1> DEFINE P == {i \in DOMAIN scheme : scheme[i].shape = "placeholder"}
<1>1. PICK pos : pos = PlaceholderPositions(scheme)
  OBVIOUS
<1>2. pos = Ascending(P)
  BY <1>1 DEF PlaceholderPositions
<1>3. DOMAIN scheme = 1 .. Len(scheme) /\ Len(scheme) \in Nat
  OBVIOUS
<1>4. P \in SUBSET Nat /\ P \in SUBSET (1 .. Len(scheme)) /\ P \in SUBSET (DOMAIN scheme)
  BY <1>3
<1>5. /\ \A p \in P : p \in DOMAIN scheme /\ IsPlaceholder(scheme[p])
      /\ \A i \in DOMAIN scheme : IsPlaceholder(scheme[i]) => i \in P
  BY DEF IsPlaceholder
<1> HIDE DEF P
<1>6. IsFiniteSet(P)
  <2>1. IsFiniteSet(1 .. Len(scheme))
    BY <1>3, FS_Interval
  <2> QED
    BY <1>4, <2>1, FS_Subset
<1>7. /\ Cardinality(P) \in Nat /\ pos \in Seq(P) /\ Len(pos) = Cardinality(P)
      /\ DOMAIN pos = 1 .. Cardinality(P)
      /\ \A n \in DOMAIN pos : pos[n] \in P
      /\ \A p \in P : \E n \in DOMAIN pos : pos[n] = p
      /\ \A m, n \in DOMAIN pos : m < n => pos[m] < pos[n]
  BY <1>2, <1>4, <1>6, AscendingIs
<1>8. \A k \in DOMAIN pos : k \in Nat /\ pos[k] \in Nat /\ (k = 1 \/ 1 < k)
  <2>1. \A k \in DOMAIN pos : k \in 1 .. Cardinality(P) /\ pos[k] \in P
    BY <1>7
  <2>2. \A k \in 1 .. Cardinality(P) : k \in Nat /\ (k = 1 \/ 1 < k)
    BY <1>7
  <2>3. \A p \in P : p \in Nat
    BY <1>4
  <2> QED
    BY <2>1, <2>2, <2>3, Zenon
<1>9. ASSUME NEW k \in DOMAIN pos, NEW l \in DOMAIN pos, pos[k] = pos[l]
      PROVE  k = l
  <2>1. ~(k < l) /\ ~(l < k)
    BY <1>7, <1>8, <1>9
  <2> QED
    BY <1>8, <2>1
<1>10. ASSUME NEW k \in DOMAIN pos
       PROVE  pos[1] <= pos[k]
  <2>1. 1 \in DOMAIN pos
    BY <1>7
  <2>2. CASE k = 1
    BY <1>8, <2>1, <2>2
  <2>3. CASE 1 < k
    BY <1>7, <1>8, <2>1, <2>3
  <2> QED
    BY <1>8, <2>2, <2>3
<1>11. (\A k \in DOMAIN pos : pos[k] \in DOMAIN scheme /\ IsPlaceholder(scheme[pos[k]]))
  BY <1>5, <1>7
<1>12. \A i \in DOMAIN scheme : IsPlaceholder(scheme[i]) => \E k \in DOMAIN pos : pos[k] = i
  BY <1>5, <1>7
<1> QED
  BY <1>1, <1>7, <1>9, <1>10, <1>11, <1>12

\* What a scheme that NewSubjectScheme lets pass consists of.
LEMMA SchemeIs ==
    ASSUME NEW scheme \in Seq(Segments), NewSubjectScheme(scheme)
    PROVE  /\ DOMAIN scheme = 1 .. Len(scheme) /\ Len(scheme) \in Nat
           /\ \A i \in DOMAIN scheme :
                 /\ scheme[i].name \in Parts
                 /\ scheme[i].shape = "literal" <=> ~IsPlaceholder(scheme[i])
<1>1. DOMAIN scheme = 1 .. Len(scheme) /\ Len(scheme) \in Nat
  OBVIOUS
<1>2. \A i \in DOMAIN scheme : scheme[i] \in Segments
  OBVIOUS
<1>3. \A s \in Segments : s.name \in Parts /\ s.shape \in {"literal", "placeholder", "malformed"}
  BY DEF Segments
<1>4. \A i \in DOMAIN scheme : scheme[i].shape # "malformed"
  BY DEF NewSubjectScheme
<1> QED
  BY <1>1, <1>2, <1>3, <1>4 DEF IsPlaceholder

\* Build puts every value where its placeholder is.
LEMMA BuildIs ==
    ASSUME NEW scheme \in Seq(Segments), NewSubjectScheme(scheme),
           NEW values \in Seq(Seq(Parts)), check(scheme, values)
    PROVE  LET built == Build(scheme, values)
               pos == PlaceholderPositions(scheme)
           IN  /\ built \in Seq(Parts) /\ Len(built) = Len(scheme)
               /\ \A i \in DOMAIN scheme :
                     ~IsPlaceholder(scheme[i]) => built[i] = scheme[i].name
               /\ \A k \in DOMAIN pos : built[pos[k]] = values[k][1] /\ values[k] = <<values[k][1]>>
<1>1. PICK pos : pos = PlaceholderPositions(scheme)
  OBVIOUS
<1>2. /\ Len(pos) \in Nat /\ DOMAIN pos = 1 .. Len(pos)
      /\ \A k \in DOMAIN pos : pos[k] \in DOMAIN scheme /\ IsPlaceholder(scheme[pos[k]])
      /\ \A i \in DOMAIN scheme : IsPlaceholder(scheme[i]) => \E k \in DOMAIN pos : pos[k] = i
      /\ \A k, l \in DOMAIN pos : pos[k] = pos[l] => k = l
  BY <1>1, PositionsAre
<1>3. /\ DOMAIN scheme = 1 .. Len(scheme) /\ Len(scheme) \in Nat
      /\ \A i \in DOMAIN scheme : /\ scheme[i].name \in Parts
                                  /\ scheme[i].shape = "literal" <=> ~IsPlaceholder(scheme[i])
  BY SchemeIs
<1>4. Len(values) = Len(pos) /\ DOMAIN values = DOMAIN pos
  <2>1. Len(values) = Len(pos) /\ DOMAIN values = 1 .. Len(values)
    BY <1>1 DEF check
  <2> QED
    BY <1>2, <2>1
<1>5. \A k \in DOMAIN pos : Len(values[k]) = 1
  BY <1>4, Zenon DEF check, hasOnlySubjectCharacters
<1>6. \A k \in DOMAIN pos : values[k] \in Seq(Parts)
  BY <1>4
<1> DEFINE At1(i) == CHOOSE k \in DOMAIN values : PlaceholderPositions(scheme)[k] = i
           ss == [i \in DOMAIN scheme |->
                     IF scheme[i].shape = "literal" THEN <<scheme[i].name>> ELSE values[At1(i)]]
<1>7. Build(scheme, values) = FlattenSeq(ss)
  BY DEF Build
<1>8. \A i \in DOMAIN scheme : IsPlaceholder(scheme[i]) => At1(i) \in DOMAIN pos /\ pos[At1(i)] = i
  BY <1>1, <1>2, <1>4
<1>9. \A k \in DOMAIN pos : At1(pos[k]) = k
  BY <1>2, <1>8
<1> HIDE DEF At1
<1>10. \A i \in DOMAIN scheme : ss[i] \in Seq(Parts) /\ Len(ss[i]) = 1
  <2> SUFFICES ASSUME NEW i \in DOMAIN scheme
               PROVE  ss[i] \in Seq(Parts) /\ Len(ss[i]) = 1
    OBVIOUS
  <2>1. CASE IsPlaceholder(scheme[i])
    <3>1. ss[i] = values[At1(i)] /\ At1(i) \in DOMAIN pos
      BY <1>3, <1>8, <2>1
    <3> QED
      BY <1>5, <1>6, <3>1, Zenon
  <2>2. CASE ~IsPlaceholder(scheme[i])
    <3>1. ss[i] = <<scheme[i].name>> /\ scheme[i].name \in Parts
      BY <1>3, <2>2
    <3>2. \A x \in Parts : <<x>> \in Seq(Parts) /\ Len(<<x>>) = 1
      OBVIOUS
    <3> QED
      BY <3>1, <3>2
  <2> QED
    BY <2>1, <2>2
<1>11. DOMAIN ss = DOMAIN scheme /\ ss = [i \in 1 .. Len(scheme) |-> ss[i]]
  BY <1>3
<1>12. /\ \A i \in DOMAIN scheme : ~IsPlaceholder(scheme[i]) => ss[i][1] = scheme[i].name
       /\ \A k \in DOMAIN pos : ss[pos[k]] = values[k]
  <2>1. ASSUME NEW i \in DOMAIN scheme, ~IsPlaceholder(scheme[i])
        PROVE  ss[i][1] = scheme[i].name
    BY <1>3, <2>1
  <2>2. ASSUME NEW k \in DOMAIN pos
        PROVE  ss[pos[k]] = values[k]
    <3>1. pos[k] \in DOMAIN scheme /\ scheme[pos[k]].shape # "literal"
      BY <1>2, <1>3
    <3> QED
      BY <1>9, <3>1
  <2> QED
    BY <2>1, <2>2
<1> HIDE DEF ss
<1>13. ss \in [1 .. Len(scheme) -> Seq(Parts)]
  BY <1>3, <1>10, <1>11
<1>14. ss \in Seq(Seq(Parts)) /\ Len(ss) = Len(scheme)
  BY <1>3, <1>13
<1>15. PICK b : b = Build(scheme, values)
  OBVIOUS
<1>16. /\ b \in Seq(Parts) /\ Len(b) = Len(ss)
       /\ \A i \in DOMAIN ss : b[i] = ss[i][1]
  BY <1>7, <1>10, <1>11, <1>14, <1>15, FlattenSingles
<1>17. \A i \in DOMAIN scheme : ~IsPlaceholder(scheme[i]) => b[i] = scheme[i].name
  BY <1>11, <1>12, <1>16
<1>18. \A k \in DOMAIN pos : b[pos[k]] = values[k][1]
  <2> SUFFICES ASSUME NEW k \in DOMAIN pos
               PROVE  b[pos[k]] = values[k][1]
    OBVIOUS
  <2>1. pos[k] \in DOMAIN ss /\ ss[pos[k]] = values[k]
    BY <1>2, <1>11, <1>12, Zenon
  <2>2. b[pos[k]] = ss[pos[k]][1]
    BY <1>16, <2>1, Zenon
  <2> QED
    BY <2>1, <2>2, Zenon
<1>19. \A x \in Seq(Parts) : Len(x) = 1 => x = <<x[1]>>
  OBVIOUS
<1>20. \A k \in DOMAIN pos : values[k] = <<values[k][1]>>
  BY <1>5, <1>6, <1>19, Zenon
<1> QED
  BY <1>1, <1>14, <1>15, <1>16, <1>17, <1>18, <1>20

\* Match takes a subject apart at the placeholders.
LEMMA MatchIs ==
    ASSUME NEW scheme \in Seq(Segments), NewSubjectScheme(scheme), NEW subject \in Seq(Parts)
    PROVE  LET pos == PlaceholderPositions(scheme)
               matched == Match(scheme, subject)
           IN  /\ Placeholders(scheme) = [k \in DOMAIN pos |-> scheme[pos[k]].name]
               /\ matched.ok <=>
                     /\ Len(subject) = Len(scheme)
                     /\ \A i \in DOMAIN scheme :
                           ~IsPlaceholder(scheme[i]) => subject[i] = scheme[i].name
                     /\ \A k \in DOMAIN pos : subject[pos[k]] \notin {EmptyPart, OddPart}
               /\ matched.ok =>
                     \A k \in DOMAIN pos :
                         /\ Placeholders(scheme)[k] \in ToSet(Placeholders(scheme))
                         /\ matched.values[Placeholders(scheme)[k]] = <<subject[pos[k]]>>
<1>1. PICK pos : pos = PlaceholderPositions(scheme)
  OBVIOUS
<1>2. /\ Len(pos) \in Nat /\ DOMAIN pos = 1 .. Len(pos)
      /\ \A k \in DOMAIN pos : pos[k] \in DOMAIN scheme /\ IsPlaceholder(scheme[pos[k]])
      /\ \A i \in DOMAIN scheme : IsPlaceholder(scheme[i]) => \E k \in DOMAIN pos : pos[k] = i
      /\ \A k, l \in DOMAIN pos : pos[k] = pos[l] => k = l
  BY <1>1, PositionsAre
<1>3. /\ DOMAIN scheme = 1 .. Len(scheme) /\ Len(scheme) \in Nat
      /\ \A i \in DOMAIN scheme : scheme[i].shape = "literal" <=> ~IsPlaceholder(scheme[i])
  BY SchemeIs
<1>4. PICK names : names = Placeholders(scheme)
  OBVIOUS
<1>5. names = [k \in DOMAIN pos |-> scheme[pos[k]].name]
  BY <1>1, <1>4 DEF Placeholders
<1>6. DOMAIN names = DOMAIN pos /\ \A k, l \in DOMAIN pos : names[k] = names[l] => k = l
  <2>1. DOMAIN names = DOMAIN pos
    BY <1>5
  <2>2. \A k, l \in DOMAIN names : k # l => names[k] # names[l]
    BY <1>4 DEF NewSubjectScheme
  <2> QED
    BY <2>1, <2>2
<1> DEFINE Fits == /\ Len(subject) = Len(scheme)
                   /\ \A i \in DOMAIN scheme :
                         IF scheme[i].shape = "literal" THEN subject[i] = scheme[i].name
                         ELSE subject[i] # EmptyPart /\ hasOnlySubjectCharacters(<<subject[i]>>)
           Of(p) == CHOOSE l \in DOMAIN names : names[l] = p
           values == [p \in ToSet(names) |-> <<subject[pos[Of(p)]]>>]
<1>7. Match(scheme, subject) = IF Fits THEN [ok |-> TRUE, values |-> values]
                               ELSE [ok |-> FALSE, values |-> <<>>]
  BY <1>1, <1>4 DEF Match
<1>8. Fits <=> /\ Len(subject) = Len(scheme)
               /\ \A i \in DOMAIN scheme :
                     ~IsPlaceholder(scheme[i]) => subject[i] = scheme[i].name
               /\ \A k \in DOMAIN pos : subject[pos[k]] \notin {EmptyPart, OddPart}
  <2>1. \A x : hasOnlySubjectCharacters(<<x>>) <=> x # OddPart
    <3>1. \A x : Len(<<x>>) = 1 /\ <<x>>[1] = x
      OBVIOUS
    <3> QED
      BY <3>1 DEF hasOnlySubjectCharacters
  <2>2. Fits <=> /\ Len(subject) = Len(scheme)
                 /\ \A i \in DOMAIN scheme :
                       /\ ~IsPlaceholder(scheme[i]) => subject[i] = scheme[i].name
                       /\ IsPlaceholder(scheme[i]) => subject[i] \notin {EmptyPart, OddPart}
    BY <1>3, <2>1
  <2> HIDE DEF Fits
  <2>3. (\A i \in DOMAIN scheme : IsPlaceholder(scheme[i]) => subject[i] \notin {EmptyPart, OddPart})
            <=> \A k \in DOMAIN pos : subject[pos[k]] \notin {EmptyPart, OddPart}
    BY <1>2, Zenon
  <2> QED
    BY <2>2, <2>3, Zenon
<1>9. ASSUME NEW k \in DOMAIN pos
      PROVE  names[k] \in ToSet(names) /\ values[names[k]] = <<subject[pos[k]]>>
  <2>1. names[k] \in ToSet(names)
    BY <1>6 DEF ToSet
  <2>2. Of(names[k]) = k
    BY <1>6
  <2> HIDE DEF Of
  <2> QED
    BY <2>1, <2>2
<1> HIDE DEF Fits, values
<1>10. PICK matched : matched = Match(scheme, subject)
  OBVIOUS
<1>11. (matched.ok <=> Fits) /\ (Fits => matched.values = values)
  BY <1>7, <1>10
<1> QED
  BY <1>1, <1>4, <1>5, <1>8, <1>9, <1>10, <1>11, Zenon

\* What Match has taken apart may be built, and is what it was.
LEMMA BuiltAgain ==
    ASSUME NEW scheme \in Seq(Segments), NewSubjectScheme(scheme), NEW subject \in Seq(Parts),
           Match(scheme, subject).ok
    PROVE  LET taken == [k \in DOMAIN Placeholders(scheme) |->
                            Match(scheme, subject).values[Placeholders(scheme)[k]]]
           IN  check(scheme, taken) /\ Build(scheme, taken) = subject
<1>1. PICK pos : pos = PlaceholderPositions(scheme)
  OBVIOUS
<1>2. /\ Len(pos) \in Nat /\ DOMAIN pos = 1 .. Len(pos)
      /\ \A k \in DOMAIN pos : pos[k] \in DOMAIN scheme /\ IsPlaceholder(scheme[pos[k]])
      /\ \A i \in DOMAIN scheme : IsPlaceholder(scheme[i]) => \E k \in DOMAIN pos : pos[k] = i
  BY <1>1, PositionsAre
<1>3. DOMAIN scheme = 1 .. Len(scheme) /\ Len(scheme) \in Nat
  OBVIOUS
<1>4. PICK taken : taken = [k \in DOMAIN Placeholders(scheme) |->
                               Match(scheme, subject).values[Placeholders(scheme)[k]]]
  OBVIOUS
<1>5. /\ DOMAIN Placeholders(scheme) = DOMAIN pos /\ Len(subject) = Len(scheme)
      /\ \A i \in DOMAIN scheme : ~IsPlaceholder(scheme[i]) => subject[i] = scheme[i].name
      /\ \A k \in DOMAIN pos :
            /\ subject[pos[k]] \notin {EmptyPart, OddPart}
            /\ Match(scheme, subject).values[Placeholders(scheme)[k]] = <<subject[pos[k]]>>
  <2>1. Placeholders(scheme) = [k \in DOMAIN pos |-> scheme[pos[k]].name]
    BY <1>1, MatchIs
  <2>2. DOMAIN Placeholders(scheme) = DOMAIN pos
    BY <2>1
  <2> QED
    BY <1>1, <2>2, MatchIs
<1>6. taken = [k \in 1 .. Len(pos) |-> <<subject[pos[k]]>>]
  BY <1>2, <1>4, <1>5
<1>7. \A k \in DOMAIN pos : subject[pos[k]] \in Parts
  BY <1>2, <1>3, <1>5
<1>8. taken \in [1 .. Len(pos) -> Seq(Parts)]
  <2>1. \A x \in Parts : <<x>> \in Seq(Parts)
    OBVIOUS
  <2> QED
    BY <1>2, <1>6, <1>7, <2>1
<1>9. taken \in Seq(Seq(Parts)) /\ Len(taken) = Len(pos) /\ DOMAIN taken = 1 .. Len(pos)
  BY <1>2, <1>8
<1>10. \A k \in DOMAIN taken : taken[k] = <<subject[pos[k]]>>
  BY <1>6, <1>9
<1>11. \A x : /\ Len(<<x>>) = 1 /\ <<x>>[1] = x
              /\ <<x>> = <<EmptyPart>> => x = EmptyPart
  OBVIOUS
<1>12. check(scheme, taken)
  <2>1. \A k \in DOMAIN taken : taken[k] # <<EmptyPart>> /\ hasOnlySubjectCharacters(taken[k])
    <3> SUFFICES ASSUME NEW k \in DOMAIN taken
                 PROVE  taken[k] # <<EmptyPart>> /\ hasOnlySubjectCharacters(taken[k])
      OBVIOUS
    <3>1. taken[k] = <<subject[pos[k]]>> /\ subject[pos[k]] \notin {EmptyPart, OddPart}
      BY <1>2, <1>5, <1>9, <1>10
    <3>2. PICK x : x = subject[pos[k]]
      OBVIOUS
    <3>3. taken[k] = <<x>> /\ x # EmptyPart /\ x # OddPart
      BY <3>1, <3>2
    <3> QED
      BY <1>11, <3>3 DEF hasOnlySubjectCharacters
  <2> QED
    BY <1>1, <1>9, <2>1 DEF check
<1>13. PICK b : b = Build(scheme, taken)
  OBVIOUS
<1>14. /\ b \in Seq(Parts) /\ Len(b) = Len(scheme)
       /\ \A i \in DOMAIN scheme : ~IsPlaceholder(scheme[i]) => b[i] = scheme[i].name
       /\ \A k \in DOMAIN pos : b[pos[k]] = taken[k][1]
  BY <1>1, <1>9, <1>12, <1>13, BuildIs
<1>15. \A k \in DOMAIN pos : b[pos[k]] = subject[pos[k]]
  <2> SUFFICES ASSUME NEW k \in DOMAIN pos
               PROVE  b[pos[k]] = subject[pos[k]]
    OBVIOUS
  <2>1. taken[k] = <<subject[pos[k]]>>
    BY <1>2, <1>9, <1>10
  <2> QED
    BY <1>11, <1>14, <2>1
<1>16. \A i \in DOMAIN scheme : b[i] = subject[i]
  <2> SUFFICES ASSUME NEW i \in DOMAIN scheme
               PROVE  b[i] = subject[i]
    OBVIOUS
  <2>1. CASE IsPlaceholder(scheme[i])
    <3>1. PICK k \in DOMAIN pos : pos[k] = i
      BY <1>2, <2>1
    <3> QED
      BY <1>15, <3>1
  <2>2. CASE ~IsPlaceholder(scheme[i])
    BY <1>5, <1>14, <2>2
  <2> QED
    BY <2>1, <2>2
<1>17. b = subject
  <2>1. Len(b) = Len(subject) /\ \A i \in 1 .. Len(b) : b[i] = subject[i]
    BY <1>3, <1>5, <1>14, <1>16
  <2> QED
    BY <1>14, <2>1, SeqEqual
<1> QED
  BY <1>4, <1>12, <1>13, <1>17

\* For any scheme that NewSubjectScheme lets pass, with any number of segments
\* and placeholders, any values and any subject: what Build composes of values
\* that Check lets pass, Match takes apart into these values, and it lies under
\* Root; what Match takes apart, Build composes again (subject.go).
THEOREM SchemesRoundTrip ==
    ASSUME NEW scheme \in Seq(Segments), NewSubjectScheme(scheme),
           NEW values \in Seq(Seq(Parts)), NEW subject \in Seq(Parts)
    PROVE  RoundTrips(scheme, values, subject, SchemeAnswer(scheme, values, subject))
<1>1. PICK pos : pos = PlaceholderPositions(scheme)
  OBVIOUS
<1>2. PICK names : names = Placeholders(scheme)
  OBVIOUS
<1> DEFINE built == IF check(scheme, values) THEN Build(scheme, values) ELSE <<>>
           taken == [k \in DOMAIN names |-> Match(scheme, subject).values[names[k]]]
           back == [p \in ToSet(names) |-> Value(scheme, built, p)]
           again == IF Match(scheme, subject).ok
                    THEN IF check(scheme, taken) THEN Build(scheme, taken) ELSE <<>>
                    ELSE <<>>
<1>3. PICK answered : answered = SchemeAnswer(scheme, values, subject)
  OBVIOUS
<1>4. answered = [isFine |-> check(scheme, values), built |-> built, back |-> back,
                  matched |-> Match(scheme, subject).ok, again |-> again]
  BY <1>2, <1>3 DEF SchemeAnswer
<1> HIDE DEF back, again, built
<1>5. /\ answered.isFine = check(scheme, values) /\ answered.built = built /\ answered.back = back
      /\ answered.matched = Match(scheme, subject).ok /\ answered.again = again
  BY <1>4
<1>6. ASSUME Match(scheme, subject).ok
      PROVE  again = subject
  BY <1>2, <1>6, BuiltAgain DEF again
<1>7. ASSUME check(scheme, values)
      PROVE  /\ \A k \in DOMAIN values : back[names[k]] = [ok |-> TRUE, value |-> values[k]]
             /\ IsPrefix(Root(scheme), built)
  <2>1. /\ Len(pos) \in Nat /\ DOMAIN pos = 1 .. Len(pos)
        /\ \A k \in DOMAIN pos : pos[k] \in DOMAIN scheme /\ IsPlaceholder(scheme[pos[k]])
        /\ \A i \in DOMAIN scheme : IsPlaceholder(scheme[i]) => \E k \in DOMAIN pos : pos[k] = i
        /\ \A k \in DOMAIN pos : pos[1] <= pos[k]
    BY <1>1, PositionsAre
  <2>2. DOMAIN scheme = 1 .. Len(scheme) /\ Len(scheme) \in Nat
    OBVIOUS
  <2>3. DOMAIN values = DOMAIN pos
    <3>1. Len(values) = Len(pos) /\ DOMAIN values = 1 .. Len(values)
      BY <1>1, <1>7 DEF check
    <3> QED
      BY <2>1, <3>1
  <2>4. built = Build(scheme, values)
    BY <1>7 DEF built
  <2>5. /\ built \in Seq(Parts) /\ Len(built) = Len(scheme)
        /\ \A i \in DOMAIN scheme : ~IsPlaceholder(scheme[i]) => built[i] = scheme[i].name
        /\ \A k \in DOMAIN pos : built[pos[k]] = values[k][1] /\ values[k] = <<values[k][1]>>
    BY <1>1, <1>7, <2>4, BuildIs
  <2>6. \A k \in DOMAIN pos : built[pos[k]] \notin {EmptyPart, OddPart}
    <3> SUFFICES ASSUME NEW k \in DOMAIN pos
                 PROVE  built[pos[k]] \notin {EmptyPart, OddPart}
      OBVIOUS
    <3>1. PICK x : x = values[k][1]
      OBVIOUS
    <3>2. values[k] = <<x>> /\ built[pos[k]] = x
      BY <2>5, <3>1
    <3>3. <<x>> # <<EmptyPart>> /\ hasOnlySubjectCharacters(<<x>>)
      BY <1>7, <2>3, <3>2 DEF check
    <3>4. x # EmptyPart /\ x # OddPart
      BY <3>3 DEF hasOnlySubjectCharacters
    <3> QED
      BY <3>2, <3>4
  <2>7. PICK matched : matched = Match(scheme, built)
    OBVIOUS
  <2>8. matched.ok /\ \A k \in DOMAIN pos : /\ names[k] \in ToSet(names)
                                            /\ matched.values[names[k]] = <<built[pos[k]]>>
    <3>1. matched.ok
      BY <1>1, <2>5, <2>6, <2>7, MatchIs
    <3>2. Match(scheme, built).ok =>
             \A k \in DOMAIN PlaceholderPositions(scheme) :
                 /\ Placeholders(scheme)[k] \in ToSet(Placeholders(scheme))
                 /\ Match(scheme, built).values[Placeholders(scheme)[k]]
                        = <<built[PlaceholderPositions(scheme)[k]]>>
      BY <2>5, MatchIs, Zenon
    <3> QED
      BY <1>1, <1>2, <2>7, <3>1, <3>2, Zenon
  <2>9. matched.ok = TRUE
    BY <2>7, <2>8 DEF Match
  <2>10. ASSUME NEW k \in DOMAIN values
         PROVE  back[names[k]] = [ok |-> TRUE, value |-> values[k]]
    <3>1. k \in DOMAIN pos
      BY <2>3
    <3>2. back[names[k]] = Value(scheme, built, names[k])
      BY <2>8, <3>1 DEF back
    <3>3. Value(scheme, built, names[k]) = [ok |-> TRUE, value |-> matched.values[names[k]]]
      BY <2>7, <2>9 DEF Value
    <3>4. matched.values[names[k]] = values[k]
      BY <2>5, <2>8, <3>1
    <3> QED
      BY <3>2, <3>3, <3>4
  <2>11. IsPrefix(Root(scheme), built)
    <3> DEFINE first == IF pos = <<>> THEN Len(scheme) ELSE pos[1] - 1
    <3>1. Root(scheme) = [i \in 1 .. first |-> scheme[i].name]
      BY <1>1 DEF Root
    <3>2. /\ first \in Nat /\ first <= Len(scheme)
          /\ \A i \in 1 .. first : i \in DOMAIN scheme /\ ~IsPlaceholder(scheme[i])
      <4>1. CASE pos = <<>>
        <5>1. DOMAIN pos = {}
          BY <4>1
        <5> QED
          BY <2>1, <2>2, <4>1, <5>1
      <4>2. CASE pos # <<>>
        <5>1. 1 \in DOMAIN pos
          <6>1. pos = [k \in 1 .. Len(pos) |-> pos[k]]
            BY <1>1, <2>1 DEF PlaceholderPositions, Ascending
          <6>2. Len(pos) # 0
            BY <4>2, <6>1
          <6> QED
            BY <2>1, <6>2
        <5>2. first = pos[1] - 1 /\ pos[1] \in 1 .. Len(scheme)
          BY <2>1, <2>2, <4>2, <5>1
        <5>3. /\ first \in Nat /\ first <= Len(scheme)
              /\ \A i \in 1 .. first : i \in 1 .. Len(scheme) /\ ~(pos[1] <= i)
          BY <2>2, <5>2
        <5> QED
          BY <2>1, <2>2, <5>3
      <4> QED
        BY <4>1, <4>2
    <3> HIDE DEF first
    <3>3. PICK root : root = Root(scheme)
      OBVIOUS
    <3>4. \A i \in 1 .. first : scheme[i].name \in Parts /\ built[i] = scheme[i].name
      BY <2>5, <3>2, SchemeIs
    <3>5. root \in [1 .. first -> Parts] /\ \A i \in 1 .. first : root[i] = built[i]
      BY <3>1, <3>3, <3>4
    <3>6. root \in Seq(Parts) /\ Len(root) = first
      BY <3>2, <3>5
    <3>7. Len(root) <= Len(built)
      BY <2>5, <3>2, <3>6
    <3>8. SubSeq(root, 1, Len(root)) = SubSeq(built, 1, Len(root))
      <4>1. SubSeq(root, 1, first) = [i \in 1 .. first |-> root[i]]
        BY <3>2, <3>6
      <4>2. SubSeq(built, 1, first) = [i \in 1 .. first |-> built[i]]
        BY <2>5, <3>2
      <4> QED
        BY <3>5, <3>6, <4>1, <4>2
    <3> QED
      BY <3>3, <3>7, <3>8 DEF IsPrefix
  <2> QED
    BY <2>10, <2>11
<1> QED
  BY <1>2, <1>3, <1>5, <1>6, <1>7, Zenon DEF RoundTrips

-----------------------------------------------------------------------------
(***************************************************************************)
(* Read options.                                                           *)
(***************************************************************************)
LowerKinds == {"FromEvent", "AfterEvent", "ReadEverything", "ReadNothing"}
UpperKinds == {"UpToEvent", "BeforeEvent"}
LatestKinds == {"ReadEverything", "ReadNothing"}
OrderKinds == {"NewestFirst"}

Bound == Options \cup {NoBound}

AllSettings == [lower : Bound, upper : Bound, latest : Bound, order : Bound, panics : BOOLEAN]

LEMMA KindsAre ==
    ASSUME NEW o \in Options
    PROVE  /\ o.kind \in Bounds \cup {"NewestFirst", "ReadEverything", "ReadNothing", "nil"}
           /\ o.kind \in Bounds => o.id \in BoundIDs
           /\ o # NoBound
<1>1. o # NoBound
  BY ReadAssumption
<1>2. CASE o \in [kind : Bounds, id : BoundIDs]
  BY <1>1, <1>2
<1>3. CASE o \in [kind : {"NewestFirst", "ReadEverything", "ReadNothing", "nil"}, id : {NotARevision}]
  BY <1>1, <1>3 DEF Bounds
<1> QED
  BY <1>2, <1>3 DEF Options

LEMMA SettingsType ==
    ASSUME NEW l \in Bound, NEW u \in Bound, NEW t \in Bound, NEW o \in Bound
    PROVE  /\ Settings(l, u, t, o) \in AllSettings
           /\ Settings(l, u, t, o).lower = l /\ Settings(l, u, t, o).upper = u
           /\ Settings(l, u, t, o).latest = t /\ Settings(l, u, t, o).order = o
           /\ Settings(l, u, t, o).panics = FALSE
BY DEF Settings, AllSettings

LEMMA PanickedType == Panicked \in AllSettings /\ Panicked.panics = TRUE
<1>1. Panicked = [lower |-> NoBound, upper |-> NoBound, latest |-> NoBound, order |-> NoBound,
                  panics |-> TRUE]
  BY DEF Panicked
<1> QED
  BY <1>1 DEF AllSettings, Bound

\* What one more option makes of a setting that the options of some kinds set.
Sets(kinds, before, option, after) ==
    IF option.kind \in kinds THEN before = NoBound /\ after = option ELSE after = before

LEMMA AppliedIs ==
    ASSUME NEW s \in AllSettings, NEW o \in Options
    PROVE  /\ Applied(s, o) \in AllSettings
           /\ ~Applied(s, o).panics =>
                 /\ ~s.panics
                 /\ Sets(LowerKinds, s.lower, o, Applied(s, o).lower)
                 /\ Sets(UpperKinds, s.upper, o, Applied(s, o).upper)
                 /\ Sets(OrderKinds, s.order, o, Applied(s, o).order)
                 /\ IF o.kind \in LatestKinds THEN Applied(s, o).latest = o
                    ELSE Applied(s, o).latest = s.latest
<1>1. /\ s.lower \in Bound /\ s.upper \in Bound /\ s.latest \in Bound /\ s.order \in Bound
      /\ s.panics \in BOOLEAN /\ o \in Bound
  BY DEF AllSettings, Bound
<1>2. PICK y : y = Applied(s, o)
  OBVIOUS
<1>3. o.kind \in Bounds \cup {"NewestFirst", "ReadEverything", "ReadNothing", "nil"}
  BY KindsAre
<1>4. CASE o.kind \in {"FromEvent", "AfterEvent"}
  <2>1. y = IF s.panics \/ s.lower # NoBound THEN Panicked
            ELSE Settings(o, s.upper, s.latest, s.order)
    BY <1>2, <1>4 DEF Applied
  <2>2. CASE s.panics \/ s.lower # NoBound
    BY <1>2, <2>1, <2>2, PanickedType
  <2>3. CASE ~(s.panics \/ s.lower # NoBound)
    <3>1. /\ y \in AllSettings /\ y.lower = o /\ y.upper = s.upper /\ y.latest = s.latest
          /\ y.order = s.order
      <4>1. y = Settings(o, s.upper, s.latest, s.order)
        BY <2>1, <2>3
      <4> QED
        BY <1>1, <4>1 DEF Settings, AllSettings
    <3> QED
      BY <1>2, <1>4, <2>3, <3>1 DEF Sets, LowerKinds, UpperKinds, OrderKinds, LatestKinds
  <2> QED
    BY <2>2, <2>3
<1>5. CASE o.kind \in {"UpToEvent", "BeforeEvent"}
  <2>1. y = IF s.panics \/ s.upper # NoBound THEN Panicked
            ELSE Settings(s.lower, o, s.latest, s.order)
    BY <1>2, <1>5 DEF Applied
  <2>2. CASE s.panics \/ s.upper # NoBound
    BY <1>2, <2>1, <2>2, PanickedType
  <2>3. CASE ~(s.panics \/ s.upper # NoBound)
    <3>1. /\ y \in AllSettings /\ y.lower = s.lower /\ y.upper = o /\ y.latest = s.latest
          /\ y.order = s.order
      <4>1. y = Settings(s.lower, o, s.latest, s.order)
        BY <2>1, <2>3
      <4> QED
        BY <1>1, <4>1 DEF Settings, AllSettings
    <3> QED
      BY <1>2, <1>5, <2>3, <3>1 DEF Sets, LowerKinds, UpperKinds, OrderKinds, LatestKinds
  <2> QED
    BY <2>2, <2>3
<1>6. CASE o.kind = "NewestFirst"
  <2>1. y = IF s.panics \/ s.order # NoBound THEN Panicked
            ELSE Settings(s.lower, s.upper, s.latest, o)
    BY <1>2, <1>6 DEF Applied
  <2>2. CASE s.panics \/ s.order # NoBound
    BY <1>2, <2>1, <2>2, PanickedType
  <2>3. CASE ~(s.panics \/ s.order # NoBound)
    <3>1. /\ y \in AllSettings /\ y.lower = s.lower /\ y.upper = s.upper /\ y.latest = s.latest
          /\ y.order = o
      <4>1. y = Settings(s.lower, s.upper, s.latest, o)
        BY <2>1, <2>3
      <4> QED
        BY <1>1, <4>1 DEF Settings, AllSettings
    <3> QED
      BY <1>2, <1>6, <2>3, <3>1 DEF Sets, LowerKinds, UpperKinds, OrderKinds, LatestKinds
  <2> QED
    BY <2>2, <2>3
<1>7. CASE o.kind \in {"ReadEverything", "ReadNothing"}
  <2>1. y = IF s.panics \/ s.lower # NoBound THEN Panicked
            ELSE Settings(o, s.upper, o, s.order)
    BY <1>2, <1>7 DEF Applied
  <2>2. CASE s.panics \/ s.lower # NoBound
    BY <1>2, <2>1, <2>2, PanickedType
  <2>3. CASE ~(s.panics \/ s.lower # NoBound)
    <3>1. /\ y \in AllSettings /\ y.lower = o /\ y.upper = s.upper /\ y.latest = o
          /\ y.order = s.order
      <4>1. y = Settings(o, s.upper, o, s.order)
        BY <2>1, <2>3
      <4> QED
        BY <1>1, <4>1 DEF Settings, AllSettings
    <3> QED
      BY <1>2, <1>7, <2>3, <3>1 DEF Sets, LowerKinds, UpperKinds, OrderKinds, LatestKinds
  <2> QED
    BY <2>2, <2>3
<1>8. CASE o.kind = "nil"
  <2>1. y = Panicked
    BY <1>2, <1>8 DEF Applied
  <2> QED
    BY <1>2, <2>1, PanickedType
<1> QED
  BY <1>3, <1>4, <1>5, <1>6, <1>7, <1>8 DEF Bounds

\* Of the first n options, those of some kinds.
FirstGiven(options, n, kinds) ==
    {options[k] : k \in {l \in 1 .. n : options[l].kind \in kinds}}

\* A setting is what the options of some kinds say, of which there is at most one.
Tells(setting, given) == given = IF setting = NoBound THEN {} ELSE {setting}

TellAll(s, options, n) ==
    /\ Tells(s.lower, FirstGiven(options, n, LowerKinds))
    /\ Tells(s.upper, FirstGiven(options, n, UpperKinds))
    /\ Tells(s.order, FirstGiven(options, n, OrderKinds))
    /\ Tells(s.latest, FirstGiven(options, n, LatestKinds))

LEMMA FirstGivenGrows ==
    ASSUME NEW options, NEW n \in Nat, NEW kinds
    PROVE  FirstGiven(options, n + 1, kinds) =
              FirstGiven(options, n, kinds)
                  \cup IF options[n + 1].kind \in kinds THEN {options[n + 1]} ELSE {}
<1>1. \A k : k \in 1 .. n + 1 <=> (k \in 1 .. n \/ k = n + 1)
  OBVIOUS
<1>2. PICK m : m = n + 1
  OBVIOUS
<1>3. PICK I : I = 1 .. n
  OBVIOUS
<1>4. PICK J : J = 1 .. n + 1
  OBVIOUS
<1>5. \A k : k \in J <=> (k \in I \/ k = m)
  BY <1>1, <1>2, <1>3, <1>4
<1>6. {options[k] : k \in {l \in J : options[l].kind \in kinds}} =
         {options[k] : k \in {l \in I : options[l].kind \in kinds}}
             \cup IF options[m].kind \in kinds THEN {options[m]} ELSE {}
  BY <1>5
<1> QED
  BY <1>2, <1>3, <1>4, <1>6 DEF FirstGiven

LEMMA TellsMore ==
    ASSUME NEW before, NEW o \in Options, NEW after, NEW kinds, NEW given, NEW more,
           Tells(before, given), Sets(kinds, before, o, after),
           more = given \cup IF o.kind \in kinds THEN {o} ELSE {}
    PROVE  Tells(after, more)
<1>1. o # NoBound
  BY KindsAre
<1> QED
  BY <1>1 DEF Tells, Sets

\* The options after one another, none of which panics.
LEMMA OptionsTell ==
    ASSUME NEW options \in Seq(Options)
    PROVE  LET s == Folded(Applied, NoSettings, options)
           IN  s \in AllSettings /\ (~s.panics => TellAll(s, options, Len(options)))
<1> DEFINE N == Len(options)
           V == AllSettings
           E(f) == [n \in 0 .. N |-> IF n = 0 THEN NoSettings ELSE Applied(f[n - 1], options[n])]
           G == [n \in 1 .. N |-> [x \in V |-> Applied(x, options[n])]]
<1>1. N \in Nat /\ \A n \in 1 .. N : options[n] \in Options
  OBVIOUS
<1>2. Folded(Applied, NoSettings, options) = (CHOOSE f : f = E(f))[N]
  BY DEF Folded
<1>3. NoSettings \in V /\ NoSettings = Settings(NoBound, NoBound, NoBound, NoBound)
  BY SettingsType DEF NoSettings, Bound
<1>4. \A n \in 1 .. N, x \in V : Applied(x, options[n]) \in V
  BY <1>1, AppliedIs
<1>5. G \in [1 .. N -> [V -> V]]
  BY <1>4
<1> HIDE DEF V, N
<1>6. PICK f : Loop(V, NoSettings, N, G, f)
  <2> HIDE DEF G
  <2> QED
    BY <1>1, <1>3, <1>5, LoopExists
<1>7. f = E(f)
  <2>1. f \in [0 .. N -> V] /\ f[0] = NoSettings /\ \A n \in 1 .. N : f[n] = G[n][f[n - 1]]
    BY <1>6 DEF Loop
  <2>2. \A n \in 1 .. N : n - 1 \in 0 .. N
    BY <1>1
  <2>3. \A n \in 1 .. N : f[n - 1] \in V
    <3> HIDE DEF G
    <3> QED
      BY <2>1, <2>2
  <2>4. \A n \in 1 .. N : f[n] = Applied(f[n - 1], options[n])
    BY <2>1, <2>3
  <2>5. \A n \in 0 .. N : n = 0 \/ (n # 0 /\ n \in 1 .. N)
    BY <1>1
  <2>6. \A n \in 0 .. N : f[n] = IF n = 0 THEN NoSettings ELSE Applied(f[n - 1], options[n])
    <3> HIDE DEF G
    <3> QED
      BY <2>1, <2>4, <2>5, Zenon
  <2> HIDE DEF G
  <2> QED
    BY <2>1, <2>6
<1>8. PICK r : r = E(r) /\ Folded(Applied, NoSettings, options) = r[N]
  <2> HIDE DEF E
  <2> QED
    BY <1>2, <1>7
<1>9. r[0] = NoSettings /\ \A n \in 1 .. N : r[n] = Applied(r[n - 1], options[n])
  <2>1. 0 \in 0 .. N /\ \A n \in 1 .. N : n \in 0 .. N /\ n # 0
    BY <1>1
  <2> QED
    BY <1>8, <2>1
<1> DEFINE T == {n \in Nat : n <= N => r[n] \in V /\ (~r[n].panics => TellAll(r[n], options, n))}
<1>10. 0 \in T
  <2>1. \A kinds : FirstGiven(options, 0, kinds) = {}
    <3>1. 1 .. 0 = {}
      OBVIOUS
    <3> QED
      BY <3>1 DEF FirstGiven
  <2>2. /\ NoSettings.lower = NoBound /\ NoSettings.upper = NoBound /\ NoSettings.order = NoBound
        /\ NoSettings.latest = NoBound
    BY DEF NoSettings, Settings
  <2>3. TellAll(NoSettings, options, 0)
    BY <2>1, <2>2 DEF TellAll, Tells
  <2> QED
    BY <1>3, <1>9, <2>3
<1>11. ASSUME NEW n \in Nat, n \in T
       PROVE  n + 1 \in T
  <2> SUFFICES ASSUME n + 1 <= N
               PROVE  r[n + 1] \in V /\ (~r[n + 1].panics => TellAll(r[n + 1], options, n + 1))
    OBVIOUS
  <2>1. n + 1 \in 1 .. N /\ (n + 1) - 1 = n /\ n <= N
    BY <1>1
  <2>2. PICK o : o = options[n + 1]
    OBVIOUS
  <2>3. PICK s : s = r[n]
    OBVIOUS
  <2>4. PICK y : y = r[n + 1]
    OBVIOUS
  <2>5. o \in Options /\ s \in V /\ y = Applied(s, o) /\ (~s.panics => TellAll(s, options, n))
    BY <1>1, <1>9, <1>11, <2>1, <2>2, <2>3, <2>4
  <2>6. /\ y \in V
        /\ ~y.panics => /\ ~s.panics
                        /\ Sets(LowerKinds, s.lower, o, y.lower)
                        /\ Sets(UpperKinds, s.upper, o, y.upper)
                        /\ Sets(OrderKinds, s.order, o, y.order)
                        /\ IF o.kind \in LatestKinds THEN y.latest = o ELSE y.latest = s.latest
    BY <2>5, AppliedIs DEF V
  <2>7. ASSUME ~y.panics
        PROVE  TellAll(y, options, n + 1)
    <3>1. TellAll(s, options, n)
      BY <2>5, <2>6, <2>7
    <3>2. \A kinds : FirstGiven(options, n + 1, kinds) =
             FirstGiven(options, n, kinds) \cup IF o.kind \in kinds THEN {o} ELSE {}
      BY <2>2, FirstGivenGrows
    <3>3. Tells(y.lower, FirstGiven(options, n + 1, LowerKinds))
      BY <2>5, <2>6, <2>7, <3>1, <3>2, TellsMore DEF TellAll
    <3>4. Tells(y.upper, FirstGiven(options, n + 1, UpperKinds))
      BY <2>5, <2>6, <2>7, <3>1, <3>2, TellsMore DEF TellAll
    <3>5. Tells(y.order, FirstGiven(options, n + 1, OrderKinds))
      BY <2>5, <2>6, <2>7, <3>1, <3>2, TellsMore DEF TellAll
    <3>6. Tells(y.latest, FirstGiven(options, n + 1, LatestKinds))
      <4>1. CASE o.kind \in LatestKinds
        <5>1. o.kind \in LowerKinds
          BY <4>1 DEF LatestKinds, LowerKinds
        <5>2. s.lower = NoBound
          BY <2>6, <2>7, <5>1 DEF Sets
        <5>3. FirstGiven(options, n, LowerKinds) = {}
          BY <3>1, <5>2 DEF TellAll, Tells
        <5>4. FirstGiven(options, n, LatestKinds) = {}
          BY <5>3 DEF FirstGiven, LatestKinds, LowerKinds
        <5>5. y.latest = o /\ o # NoBound
          BY <2>5, <2>6, <2>7, <4>1, KindsAre
        <5> QED
          BY <3>2, <4>1, <5>4, <5>5 DEF Tells
      <4>2. CASE o.kind \notin LatestKinds
        <5>1. y.latest = s.latest
          BY <2>6, <2>7, <4>2
        <5>2. FirstGiven(options, n + 1, LatestKinds) = FirstGiven(options, n, LatestKinds)
          BY <3>2, <4>2
        <5> QED
          BY <3>1, <5>1, <5>2 DEF TellAll
      <4> QED
        BY <4>1, <4>2
    <3> QED
      BY <3>3, <3>4, <3>5, <3>6 DEF TellAll
  <2> QED
    BY <2>4, <2>6, <2>7
<1>12. \A n \in Nat : n \in T
  <2> HIDE DEF T
  <2> QED
    BY <1>10, <1>11, Induct
<1>13. r[N] \in V /\ (~r[N].panics => TellAll(r[N], options, N))
  BY <1>1, <1>12
<1> QED
  BY <1>8, <1>13 DEF V, N

LEMMA MinIs ==
    ASSUME NEW S \in SUBSET Nat, S # {}
    PROVE  Min(S) \in S /\ \A y \in S : Min(S) <= y
<1>1. \E x \in S : \A y \in S : x <= y
  BY LeastElement
<1> QED
  BY <1>1 DEF Min

LEMMA MaxIs ==
    ASSUME NEW S \in SUBSET Nat, S # {}, NEW N \in Nat, \A x \in S : x <= N
    PROVE  Max(S) \in S /\ \A y \in S : Max(S) >= y
<1> DEFINE T == {N - x : x \in S}
<1>1. T \in SUBSET Nat /\ T # {}
  <2>1. \A x \in S : N - x \in Nat
    OBVIOUS
  <2>2. PICK x : x \in S
    OBVIOUS
  <2>3. N - x \in T
    BY <2>2
  <2> QED
    BY <2>1, <2>3
<1>2. PICK z \in T : \A y \in T : z <= y
  <2> HIDE DEF T
  <2> QED
    BY <1>1, LeastElement
<1>3. PICK x \in S : z = N - x
  OBVIOUS
<1>4. \A y \in S : x >= y
  <2> SUFFICES ASSUME NEW y \in S
               PROVE  x >= y
    OBVIOUS
  <2>1. z <= N - y
    BY <1>2
  <2> QED
    BY <1>3, <2>1
<1> QED
  BY <1>3, <1>4 DEF Max

\* What the settings of a read that does not panic say of the options.
LEMMA SettingsSay ==
    ASSUME NEW options \in Seq(Options), NEW s, s = readSettingsOf(options), ~s.panics
    PROVE  /\ LowerBound(s) = NoBound
                 \/ (LowerBound(s) \in Options /\ LowerBound(s).kind \in {"FromEvent", "AfterEvent"})
           /\ s.upper = NoBound \/ (s.upper \in Options /\ s.upper.kind \in UpperKinds)
           /\ Given(options, Bounds) = {LowerBound(s), s.upper} \ {NoBound}
           /\ Given(options, {"NewestFirst"}) # {} <=> s.order # NoBound
           /\ Given(options, {"ReadEverything", "ReadNothing"}) # {} <=> s.latest # NoBound
           /\ s.latest # NoBound =>
                 (Given(options, {"ReadNothing"}) = {} <=> s.latest.kind = "ReadEverything")
<1>1. PICK f : f = Folded(Applied, NoSettings, options)
  OBVIOUS
<1>2. f \in AllSettings /\ (~f.panics => TellAll(f, options, Len(options)))
  BY <1>1, OptionsTell
<1>3. s = f /\ ~f.panics
  BY <1>1, PanickedType DEF readSettingsOf
<1> DEFINE G(kinds) == Given(options, kinds)
<1>4. \A kinds : FirstGiven(options, Len(options), kinds) = G(kinds)
  <2>1. DOMAIN options = 1 .. Len(options)
    OBVIOUS
  <2> QED
    BY <2>1 DEF FirstGiven, Given
<1>5. /\ Tells(s.lower, G(LowerKinds)) /\ Tells(s.upper, G(UpperKinds))
      /\ Tells(s.order, G(OrderKinds)) /\ Tells(s.latest, G(LatestKinds))
  BY <1>2, <1>3, <1>4 DEF TellAll
<1>6. \A k \in DOMAIN options : options[k] \in Options
  OBVIOUS
<1>7. \A kinds : \A o \in G(kinds) : o \in Options /\ o.kind \in kinds /\ o # NoBound
  <2>1. \A kinds : \A o \in G(kinds) : o \in Options /\ o.kind \in kinds
    BY <1>6 DEF Given
  <2> QED
    BY <2>1, KindsAre
<1>8. \A kinds, more : \A o \in G(more) : o.kind \in kinds => o \in G(kinds)
  BY DEF Given
<1> HIDE DEF G
<1>9. s.upper = NoBound \/ (s.upper \in Options /\ s.upper.kind \in UpperKinds)
  BY <1>5, <1>7 DEF Tells
<1>10. /\ G({"NewestFirst"}) # {} <=> s.order # NoBound
       /\ G({"ReadEverything", "ReadNothing"}) # {} <=> s.latest # NoBound
  BY <1>5 DEF Tells, OrderKinds, LatestKinds
<1>11. ASSUME s.latest # NoBound
       PROVE  /\ G({"ReadNothing"}) = {} <=> s.latest.kind = "ReadEverything"
              /\ G({"FromEvent", "AfterEvent"}) = {}
  <2>1. G(LatestKinds) = {s.latest} /\ s.latest.kind \in LatestKinds
    BY <1>5, <1>7, <1>11 DEF Tells
  <2>2. s.latest \in G(LowerKinds)
    BY <1>8, <2>1 DEF LatestKinds, LowerKinds
  <2>3. G(LowerKinds) = {s.latest}
    BY <1>5, <2>2 DEF Tells
  <2>4. \A o \in G({"FromEvent", "AfterEvent"}) : o = s.latest
    <3> SUFFICES ASSUME NEW o \in G({"FromEvent", "AfterEvent"})
                 PROVE  o = s.latest
      OBVIOUS
    <3>1. o.kind \in LowerKinds
      BY <1>7 DEF LowerKinds
    <3>2. o \in G(LowerKinds)
      BY <1>8, <3>1
    <3> QED
      BY <2>3, <3>2
  <2>5. G({"FromEvent", "AfterEvent"}) = {}
    BY <1>7, <2>1, <2>4 DEF LatestKinds
  <2>6. \A o \in G({"ReadNothing"}) : o = s.latest
    BY <1>7, <1>8, <2>1 DEF LatestKinds
  <2>7. G({"ReadNothing"}) = {} <=> s.latest.kind = "ReadEverything"
    <3>1. CASE s.latest.kind = "ReadEverything"
      BY <1>7, <2>6, <3>1
    <3>2. CASE s.latest.kind = "ReadNothing"
      <4>1. s.latest \in G({"ReadNothing"})
        BY <1>8, <2>1, <3>2
      <4> QED
        BY <3>2, <4>1
    <3> QED
      BY <2>1, <3>1, <3>2 DEF LatestKinds
  <2> QED
    BY <2>5, <2>7
<1>12. Tells(LowerBound(s), G({"FromEvent", "AfterEvent"}))
  <2>1. CASE s.latest # NoBound
    BY <1>11, <2>1 DEF LowerBound, Tells
  <2>2. CASE s.latest = NoBound
    <3>1. G(LatestKinds) = {}
      BY <1>5, <2>2 DEF Tells
    <3>2. \A o \in G(LowerKinds) : o.kind \in {"FromEvent", "AfterEvent"}
      <4> SUFFICES ASSUME NEW o \in G(LowerKinds)
                   PROVE  o.kind \in {"FromEvent", "AfterEvent"}
        OBVIOUS
      <4>1. o.kind \in LowerKinds
        BY <1>7
      <4>2. o.kind \notin LatestKinds
        BY <1>8, <3>1
      <4> QED
        BY <4>1, <4>2 DEF LowerKinds, LatestKinds
    <3>3. \A o \in G(LowerKinds) : o \in G({"FromEvent", "AfterEvent"})
      BY <1>8, <3>2
    <3>4. \A o \in G({"FromEvent", "AfterEvent"}) : o \in G(LowerKinds)
      BY <1>7, <1>8 DEF LowerKinds
    <3>5. G(LowerKinds) = G({"FromEvent", "AfterEvent"})
      BY <3>3, <3>4
    <3> QED
      BY <1>5, <2>2, <3>5 DEF LowerBound
  <2> QED
    BY <2>1, <2>2
<1>13. LowerBound(s) = NoBound
          \/ (LowerBound(s) \in Options /\ LowerBound(s).kind \in {"FromEvent", "AfterEvent"})
  BY <1>7, <1>12 DEF Tells
<1>14. G(Bounds) = G({"FromEvent", "AfterEvent"}) \cup G(UpperKinds)
  <2>1. \A o \in G(Bounds) : o.kind \in {"FromEvent", "AfterEvent"} \/ o.kind \in UpperKinds
    BY <1>7 DEF Bounds, UpperKinds
  <2>2. \A o \in G(Bounds) : o \in G({"FromEvent", "AfterEvent"}) \/ o \in G(UpperKinds)
    BY <1>8, <2>1
  <2>3. \A o \in G({"FromEvent", "AfterEvent"}) : o \in G(Bounds)
    BY <1>7, <1>8 DEF Bounds
  <2>4. \A o \in G(UpperKinds) : o \in G(Bounds)
    BY <1>7, <1>8 DEF Bounds, UpperKinds
  <2> QED
    BY <2>2, <2>3, <2>4
<1>15. G(Bounds) = {LowerBound(s), s.upper} \ {NoBound}
  BY <1>5, <1>12, <1>14 DEF Tells
<1> QED
  BY <1>9, <1>10, <1>11, <1>13, <1>15 DEF G

\* Each bound on its own, and the range of the database.
LEMMA RangeIsAllowed ==
    ASSUME NEW options \in Seq(Options), NEW s, s = readSettingsOf(options), ~s.panics, NEW id
    PROVE  IsAllowed(options, id) <=> IsInRange(s, id)
<1>1. PICK lower : lower = LowerBound(s)
  OBVIOUS
<1>2. PICK upper : upper = s.upper
  OBVIOUS
<1>3. /\ lower = NoBound \/ lower.kind \in {"FromEvent", "AfterEvent"}
      /\ upper = NoBound \/ upper.kind \in UpperKinds
      /\ Given(options, Bounds) = {lower, upper} \ {NoBound}
  BY <1>1, <1>2, SettingsSay
<1>4. IsAllowed(options, id) <=> /\ lower # NoBound => Allows(lower, id)
                                 /\ upper # NoBound => Allows(upper, id)
  BY <1>3 DEF IsAllowed
<1>5. lower # NoBound =>
         (Allows(lower, id) <=> IF lower.kind = "AfterEvent" THEN id > lower.id ELSE id >= lower.id)
  <2>1. CASE lower.kind = "AfterEvent"
    BY <2>1 DEF Allows
  <2>2. CASE lower.kind = "FromEvent"
    BY <2>2 DEF Allows
  <2> QED
    BY <1>3, <2>1, <2>2
<1>6. upper # NoBound =>
         (Allows(upper, id) <=> IF upper.kind = "UpToEvent" THEN id <= upper.id ELSE id < upper.id)
  <2>1. CASE upper.kind = "UpToEvent"
    BY <2>1 DEF Allows
  <2>2. CASE upper.kind = "BeforeEvent"
    BY <2>2 DEF Allows
  <2> QED
    BY <1>3, <2>1, <2>2 DEF UpperKinds
<1> QED
  BY <1>1, <1>2, <1>4, <1>5, <1>6 DEF IsInRange

\* The check of the bounds refuses exactly a range that has no ID.
LEMMA RefusedIsEmpty ==
    ASSUME NEW options \in Seq(Options), NEW s, s = readSettingsOf(options), ~s.panics
    PROVE  /\ checkBounds(s) \in {NoError, ErrNotARevision, ErrEmptyRange}
           /\ checkBounds(s) # ErrNotARevision =>
                 (checkBounds(s) = ErrEmptyRange <=> ~\E id \in IDs : IsInRange(s, id))
<1>1. PICK lower : lower = LowerBound(s)
  OBVIOUS
<1>2. PICK upper : upper = s.upper
  OBVIOUS
<1>3. /\ lower = NoBound \/ (lower \in Options /\ lower.kind \in {"FromEvent", "AfterEvent"})
      /\ upper = NoBound \/ (upper \in Options /\ upper.kind \in UpperKinds)
  BY <1>1, <1>2, SettingsSay
<1> DEFINE first == IF lower = NoBound THEN 0
                    ELSE IF lower.kind = "AfterEvent" THEN lower.id + 1 ELSE lower.id
           end == IF upper = NoBound THEN MaxRevision + 1
                  ELSE IF upper.kind = "UpToEvent" THEN upper.id + 1 ELSE upper.id
           unparsed == \E bound \in {lower, upper} \ {NoBound} : ~ParseRevision(bound.id)
<1>4. checkBounds(s) = IF unparsed THEN ErrNotARevision
                       ELSE IF first >= end THEN ErrEmptyRange ELSE NoError
  BY <1>1, <1>2 DEF checkBounds, checkBoundsBefore
<1>5. ASSUME ~unparsed
      PROVE  (first >= end) <=> ~\E id \in IDs : IsInRange(s, id)
  <2>0. MaxRevision \in Nat
    BY ReadAssumption
  <2>1. lower # NoBound => lower.id \in 0 .. MaxRevision
    BY <1>3, <1>5, KindsAre DEF ParseRevision, Bounds, BoundIDs, IDs
  <2>2. upper # NoBound => upper.id \in 0 .. MaxRevision
    BY <1>3, <1>5, KindsAre DEF ParseRevision, Bounds, BoundIDs, IDs, UpperKinds
  <2>3. first \in Nat /\ \A id \in 0 .. MaxRevision :
           first <= id <=> (lower # NoBound =>
                               IF lower.kind = "AfterEvent" THEN id > lower.id ELSE id >= lower.id)
    BY <2>0, <2>1
  <2>4. end \in Nat /\ end <= MaxRevision + 1 /\ \A id \in 0 .. MaxRevision :
           id < end <=> (upper # NoBound =>
                            IF upper.kind = "UpToEvent" THEN id <= upper.id ELSE id < upper.id)
    BY <2>0, <2>2
  <2> HIDE DEF first, end
  <2>5. \A id \in 0 .. MaxRevision : IsInRange(s, id) <=> (first <= id /\ id < end)
    BY <1>1, <1>2, <2>3, <2>4, Zenon DEF IsInRange
  <2>6. (first >= end) <=> ~\E id \in 0 .. MaxRevision : first <= id /\ id < end
    <3>1. CASE first >= end
      BY <2>0, <2>3, <2>4, <3>1
    <3>2. CASE ~(first >= end)
      <4>1. first \in 0 .. MaxRevision /\ first <= first /\ first < end
        BY <2>0, <2>3, <2>4, <3>2
      <4> QED
        BY <3>2, <4>1
    <3> QED
      BY <3>1, <3>2
  <2> QED
    BY <2>5, <2>6, Zenon DEF IDs
<1> HIDE DEF first, end, unparsed
<1> QED
  BY <1>4, <1>5, ReadAssumption

\* The events the database selects are those that the options ask for.
LEMMA WantedIsAsked ==
    ASSUME NEW q, q.options \in Seq(Options), q.log \in Seq(Events),
           NEW s, s = readSettingsOf(q.options), ~s.panics, NEW id \in Nat
    PROVE  IsWanted(q.log, s, id) <=> IsAsked(q, id)
<1>1. PICK log \in Seq(Events) : log = q.log
  OBVIOUS
<1>2. PICK full : full = FullIDs(log)
  OBVIOUS
<1>3. full # {} => (id >= LatestID(log) <=> \A other \in full : id >= other)
  <2>1. Len(log) \in Nat /\ DOMAIN log = 1 .. Len(log)
    OBVIOUS
  <2>2. \A x \in full : x \in Nat /\ x <= Len(log)
    BY <1>2, <2>1 DEF FullIDs
  <2> DEFINE S == {0} \cup full
  <2>3. S \in SUBSET Nat /\ S # {} /\ \A x \in S : x <= Len(log)
    BY <2>1, <2>2
  <2>4. LatestID(log) = Max(S)
    BY <1>2 DEF LatestID
  <2>5. \A x \in S : x = 0 \/ x \in full
    OBVIOUS
  <2>6. \A x \in full : x \in S
    OBVIOUS
  <2> HIDE DEF S
  <2>7. Max(S) \in S /\ \A y \in S : Max(S) >= y
    BY <2>1, <2>3, MaxIs
  <2>8. PICK m \in Nat : m = Max(S)
    BY <2>3, <2>7
  <2>9. m \in S /\ \A y \in S : y \in Nat /\ m >= y
    BY <2>3, <2>7, <2>8
  <2>10. ASSUME id >= m, NEW other \in full
         PROVE  id >= other
    <3>1. other \in Nat /\ m >= other
      BY <2>6, <2>9
    <3> QED
      BY <2>8, <2>10, <3>1
  <2>11. ASSUME \A other \in full : id >= other
         PROVE  id >= m
    BY <2>5, <2>9, <2>11
  <2> QED
    BY <2>4, <2>8, <2>10, <2>11
<1>4. IsAllowed(q.options, id) <=> IsInRange(s, id)
  BY RangeIsAllowed
<1>5. /\ Given(q.options, {"ReadEverything", "ReadNothing"}) # {} <=> s.latest # NoBound
      /\ s.latest # NoBound =>
            (Given(q.options, {"ReadNothing"}) = {} <=> s.latest.kind = "ReadEverything")
  BY SettingsSay
<1> QED
  BY <1>1, <1>2, <1>3, <1>4, <1>5, Zenon DEF IsWanted, IsAsked

\* Either all of a sequence grows, or all of its reverse falls.
LEMMA ReverseIs ==
    ASSUME NEW P, NEW ids \in Seq(P)
    PROVE  /\ Reverse(ids) \in Seq(P) /\ Len(Reverse(ids)) = Len(ids)
           /\ \A k \in 1 .. Len(ids) : /\ Len(ids) - k + 1 \in 1 .. Len(ids)
                                       /\ Reverse(ids)[k] = ids[Len(ids) - k + 1]
                                       /\ Reverse(ids)[Len(ids) - k + 1] = ids[k]
<1>1. PICK N \in Nat : N = Len(ids)
  OBVIOUS
<1>2. \A k \in 1 .. N : N - k + 1 \in 1 .. N /\ N - (N - k + 1) + 1 = k /\ ids[k] \in P
  BY <1>1
<1>3. PICK r : r = Reverse(ids)
  OBVIOUS
<1>4. r = [k \in 1 .. N |-> ids[N - k + 1]]
  BY <1>1, <1>3 DEF Reverse
<1>5. \A k \in 1 .. N : r[k] = ids[N - k + 1]
  BY <1>4
<1>6. \A k \in 1 .. N : r[N - k + 1] = ids[k]
  BY <1>2, <1>5
<1>7. r \in [1 .. N -> P]
  BY <1>2, <1>4
<1>8. r \in Seq(P) /\ Len(r) = N
  BY <1>7
<1> QED
  BY <1>1, <1>2, <1>3, <1>5, <1>6, <1>8

\* The database hands out all that is selected, in one order or the other.
LEMMA IDsAre ==
    ASSUME NEW log \in Seq(Events), NEW s
    PROVE  LET ids == ReadEvents(log, s).ids
           IN  /\ ids \in Seq(Nat)
               /\ \A k \in DOMAIN ids : IsWanted(log, s, ids[k])
               /\ \A i \in DOMAIN log : IsWanted(log, s, i - 1) => \E k \in DOMAIN ids : ids[k] = i - 1
               /\ \A k \in DOMAIN ids : k > 1 => (ids[k] < ids[k - 1] <=> s.order # NoBound)
<1> DEFINE P == {id \in {i - 1 : i \in DOMAIN log} : IsWanted(log, s, id)}
<1>1. Len(log) \in Nat /\ DOMAIN log = 1 .. Len(log)
  OBVIOUS
<1>2. /\ P \in SUBSET Nat /\ P \in SUBSET (0 .. Len(log))
      /\ \A p \in P : IsWanted(log, s, p)
      /\ \A i \in DOMAIN log : IsWanted(log, s, i - 1) => i - 1 \in P
  <2>1. \A i \in DOMAIN log : i - 1 \in Nat /\ i - 1 \in 0 .. Len(log)
    BY <1>1
  <2> QED
    BY <2>1
<1> HIDE DEF P
<1>3. IsFiniteSet(P)
  <2>1. IsFiniteSet(0 .. Len(log))
    BY <1>1, FS_Interval
  <2> QED
    BY <1>2, <2>1, FS_Subset
<1>4. PICK up : up = Ascending(P)
  OBVIOUS
<1>5. PICK N \in Nat : N = Len(up)
  <2>1. Len(up) \in Nat
    BY <1>2, <1>3, <1>4, AscendingIs
  <2> QED
    BY <2>1
<1>6. /\ up \in Seq(P) /\ DOMAIN up = 1 .. N
      /\ \A n \in 1 .. N : up[n] \in P
      /\ \A p \in P : \E n \in 1 .. N : up[n] = p
      /\ \A m, n \in 1 .. N : m < n => up[m] < up[n]
  BY <1>2, <1>3, <1>4, <1>5, AscendingIs
<1>7. PICK ids : ids = ReadEvents(log, s).ids
  OBVIOUS
<1>8. ids = IF s.order # NoBound THEN Reverse(up) ELSE up
  BY <1>4, <1>7 DEF ReadEvents, P
<1>9. CASE s.order = NoBound
  <2>1. ids = up
    BY <1>8, <1>9
  <2>2. \A k \in 1 .. N : k > 1 => ~(up[k] < up[k - 1])
    <3> SUFFICES ASSUME NEW k \in 1 .. N, k > 1
                 PROVE  ~(up[k] < up[k - 1])
      OBVIOUS
    <3>1. k - 1 \in 1 .. N /\ k - 1 < k
      BY <1>5
    <3>2. up[k - 1] < up[k] /\ up[k] \in Nat /\ up[k - 1] \in Nat
      BY <1>2, <1>6, <3>1
    <3> QED
      BY <3>2
  <2>3. up \in [1 .. N -> Nat]
    <3>1. up = [n \in 1 .. N |-> up[n]]
      BY <1>4, <1>6 DEF Ascending
    <3>2. \A n \in 1 .. N : up[n] \in Nat
      BY <1>2, <1>6
    <3> QED
      BY <3>1, <3>2
  <2>4. up \in Seq(Nat)
    BY <1>5, <2>3
  <2> QED
    BY <1>2, <1>6, <1>7, <1>9, <2>1, <2>2, <2>4
<1>10. CASE s.order # NoBound
  <2>1. ids = Reverse(up)
    BY <1>8, <1>10
  <2>2. /\ ids \in Seq(P) /\ Len(ids) = N
        /\ \A k \in 1 .. N : /\ N - k + 1 \in 1 .. N
                             /\ ids[k] = up[N - k + 1] /\ ids[N - k + 1] = up[k]
    BY <1>5, <1>6, <2>1, ReverseIs
  <2>3. DOMAIN ids = 1 .. N /\ \A k \in 1 .. N : ids[k] \in P
    BY <2>2
  <2>4. ids \in Seq(Nat)
    <3>1. ids = [k \in 1 .. N |-> ids[k]]
      BY <2>2, <2>3
    <3>2. ids \in [1 .. N -> Nat]
      BY <1>2, <2>3, <3>1
    <3> QED
      BY <1>5, <3>2
  <2>5. \A p \in P : \E k \in 1 .. N : ids[k] = p
    <3> SUFFICES ASSUME NEW p \in P
                 PROVE  \E k \in 1 .. N : ids[k] = p
      OBVIOUS
    <3>1. PICK n \in 1 .. N : up[n] = p
      BY <1>6
    <3>2. N - n + 1 \in 1 .. N /\ ids[N - n + 1] = p
      BY <2>2, <3>1
    <3> QED
      BY <3>2
  <2>6. \A k \in 1 .. N : k > 1 => ids[k] < ids[k - 1]
    <3> SUFFICES ASSUME NEW k \in 1 .. N, k > 1
                 PROVE  ids[k] < ids[k - 1]
      OBVIOUS
    <3>1. PICK j \in 1 .. N : j = k - 1
      BY <1>5
    <3>2. N - k + 1 < N - j + 1
      BY <1>5, <3>1
    <3>3. PICK m \in 1 .. N : m = N - k + 1 /\ ids[k] = up[m]
      BY <2>2
    <3>4. PICK n \in 1 .. N : n = N - j + 1 /\ ids[j] = up[n]
      BY <2>2
    <3>5. up[m] < up[n]
      BY <1>6, <3>2, <3>3, <3>4
    <3> QED
      BY <3>1, <3>3, <3>4, <3>5
  <2> QED
    BY <1>2, <1>7, <1>10, <2>3, <2>4, <2>5, <2>6
<1> QED
  BY <1>9, <1>10

\* What Read is asked: any log, any options in any order, how many events the
\* caller wants, and after how many the database fails.
Questions ==
    [about : {"read"}, log : Seq(Events), options : Seq(Options), wanted : Nat, failsAfter : Nat,
     isVerifying : BOOLEAN]

\* For any log and any options, any point at which the caller stops or the
\* database fails: Read fails with ErrEmptyRange exactly for a range that no ID
\* can lie in, hands out only verified events in the bounds and in the order
\* asked for, and leaves none out without an error (read_options.go, Read).
THEOREM ReadsMatchBounds ==
    ASSUME NEW q \in Questions
    PROVE  MatchesBounds(q, Read(q))
<1>1. /\ q.options \in Seq(Options) /\ q.log \in Seq(Events) /\ q.wanted \in Nat
      /\ q.failsAfter \in Nat
  BY DEF Questions
<1>2. PICK s : s = readSettingsOf(q.options)
  OBVIOUS
<1>3. PICK ids : ids = ReadEvents(q.log, s).ids
  OBVIOUS
<1> DEFINE bad == {k \in DOMAIN ids : ~verify(q.log[ids[k] + 1], q.isVerifying)}
           ends == {q.failsAfter, Len(ids)} \cup {k - 1 : k \in bad}
<1>4. PICK end : end = Min(ends)
  OBVIOUS
<1> DEFINE failure == CASE end = q.failsAfter -> ErrFailed
                        [] end # q.failsAfter /\ end + 1 \in bad -> ErrUnverified
                        [] OTHER -> NoError
           Ended(is, e) == [ids |-> is, error |-> e]
<1>5. PICK answered : answered = Read(q)
  OBVIOUS
<1>6. answered = IF s.panics THEN Ended(<<>>, Panic)
                 ELSE IF checkBounds(s) # NoError THEN Ended(<<>>, checkBounds(s))
                 ELSE IF ReadEvents(q.log, s).isRefused THEN Ended(<<>>, ErrPermanent)
                 ELSE IF q.wanted <= end THEN Ended(SubSeq(ids, 1, q.wanted), NoError)
                 ELSE Ended(SubSeq(ids, 1, end), failure)
  BY <1>2, <1>3, <1>4, <1>5 DEF Read
<1> SUFFICES ASSUME answered.error \notin {Panic, ErrNotARevision}
             PROVE  /\ answered.error = ErrEmptyRange <=> ~\E id \in IDs : IsAllowed(q.options, id)
                    /\ \A k \in DOMAIN answered.ids :
                          /\ IsAsked(q, answered.ids[k])
                          /\ q.isVerifying => q.log[answered.ids[k] + 1].isGenuine
                          /\ k > 1 => (answered.ids[k] < answered.ids[k - 1]
                                           <=> Given(q.options, {"NewestFirst"}) # {})
                    /\ answered.error = NoError /\ Len(answered.ids) < q.wanted =>
                          \A i \in DOMAIN q.log :
                              IsAsked(q, i - 1) => i - 1 \in ToSet(answered.ids)
  BY <1>5 DEF MatchesBounds
<1>7. ~s.panics
  BY <1>6
<1>8. /\ checkBounds(s) \in {NoError, ErrNotARevision, ErrEmptyRange}
      /\ checkBounds(s) # ErrNotARevision =>
            (checkBounds(s) = ErrEmptyRange <=> ~\E id \in IDs : IsAllowed(q.options, id))
  BY <1>1, <1>2, <1>7, RefusedIsEmpty, RangeIsAllowed
<1>9. DOMAIN <<>> = {} /\ Len(<<>>) = 0
  OBVIOUS
<1>10. CASE checkBounds(s) # NoError
  <2>1. answered.ids = <<>> /\ answered.error = checkBounds(s)
    BY <1>6, <1>7, <1>10
  <2>2. answered.error = ErrEmptyRange /\ answered.error # NoError
    BY <1>8, <1>10, <2>1
  <2> QED
    BY <1>8, <1>9, <2>1, <2>2
<1>11. CASE checkBounds(s) = NoError
  <2>1. \E id \in IDs : IsAllowed(q.options, id)
    BY <1>8, <1>11, ReadAssumption
  <2>2. CASE ReadEvents(q.log, s).isRefused
    <3>1. answered.ids = <<>> /\ answered.error = ErrPermanent
      BY <1>6, <1>7, <1>11, <2>2
    <3> QED
      BY <1>9, <2>1, <3>1, ReadAssumption
  <2>3. CASE ~ReadEvents(q.log, s).isRefused
    <3>1. /\ ids \in Seq(Nat)
          /\ \A k \in DOMAIN ids : IsAsked(q, ids[k])
          /\ \A i \in DOMAIN q.log : IsAsked(q, i - 1) => \E k \in DOMAIN ids : ids[k] = i - 1
          /\ \A k \in DOMAIN ids :
                k > 1 => (ids[k] < ids[k - 1] <=> Given(q.options, {"NewestFirst"}) # {})
      <4>1. /\ ids \in Seq(Nat)
            /\ \A k \in DOMAIN ids : IsWanted(q.log, s, ids[k])
            /\ \A i \in DOMAIN q.log :
                  IsWanted(q.log, s, i - 1) => \E k \in DOMAIN ids : ids[k] = i - 1
            /\ \A k \in DOMAIN ids : k > 1 => (ids[k] < ids[k - 1] <=> s.order # NoBound)
        BY <1>1, <1>3, IDsAre
      <4>2. \A id \in Nat : IsWanted(q.log, s, id) <=> IsAsked(q, id)
        BY <1>1, <1>2, <1>7, WantedIsAsked
      <4>3. (\A k \in DOMAIN ids : ids[k] \in Nat) /\ (\A i \in DOMAIN q.log : i - 1 \in Nat)
        <5>1. \A k \in DOMAIN ids : ids[k] \in Nat
          BY <4>1
        <5>2. \A i \in DOMAIN q.log : i - 1 \in Nat
          BY <1>1
        <5> QED
          BY <5>1, <5>2
      <4>4. Given(q.options, {"NewestFirst"}) # {} <=> s.order # NoBound
        BY <1>1, <1>2, <1>7, SettingsSay
      <4> QED
        BY <4>1, <4>2, <4>3, <4>4, Zenon
    <3>2. PICK N \in Nat : N = Len(ids) /\ DOMAIN ids = 1 .. N
      BY <3>1
    <3>3. \A k \in bad : k \in 1 .. N
      BY <3>2
    <3>4. ends \in SUBSET Nat /\ ends # {}
      BY <1>1, <3>2, <3>3
    <3>5. /\ \A k \in bad : k - 1 \in ends
          /\ q.failsAfter \in ends /\ N \in ends
          /\ \A x \in ends : x = q.failsAfter \/ x = N \/ \E k \in bad : x = k - 1
      BY <3>2
    <3>6. end \in ends /\ \A y \in ends : end <= y
      <4> HIDE DEF ends
      <4> QED
        BY <1>4, <3>4, MinIs
    <3>7. end \in Nat /\ end <= N /\ \A k \in bad : end <= k - 1
      BY <3>2, <3>4, <3>5, <3>6
    <3> DEFINE n == IF q.wanted <= end THEN q.wanted ELSE end
    <3>8. /\ answered.ids = SubSeq(ids, 1, n)
          /\ answered.error = IF q.wanted <= end THEN NoError ELSE failure
      BY <1>6, <1>7, <1>11, <2>3
    <3>9. n \in Nat /\ n <= end /\ n <= N
      BY <1>1, <3>2, <3>7
    <3>10. failure \in {ErrFailed, ErrUnverified, NoError}
      OBVIOUS
    <3>11. failure = NoError => end # q.failsAfter /\ end + 1 \notin bad
      BY ReadAssumption
    <3> HIDE DEF n, failure, bad, ends
    <3>12. answered.error \in {ErrFailed, ErrUnverified, NoError}
      BY <3>8, <3>10
    <3>13. answered.error # ErrEmptyRange
      BY <3>12, ReadAssumption
    <3>14. PICK part : part = answered.ids
      OBVIOUS
    <3>15. Len(part) = n /\ DOMAIN part = 1 .. n /\ \A k \in 1 .. n : part[k] = ids[k]
      <4>1. part = SubSeq(ids, 1, n) /\ ids \in Seq(Nat) /\ n <= Len(ids)
        BY <3>1, <3>2, <3>8, <3>9, <3>14
      <4> QED
        BY <3>9, <4>1
    <3>16. \A k \in 1 .. n : /\ k \in 1 .. N /\ (k > 1 => k - 1 \in 1 .. n)
                             /\ k \in Nat /\ ~(end <= k - 1)
      BY <3>2, <3>7, <3>9
    <3>17. \A k \in 1 .. n : k \notin bad
      BY <3>7, <3>16
    <3>18. ASSUME NEW k \in DOMAIN part
           PROVE  /\ IsAsked(q, part[k])
                  /\ q.isVerifying => q.log[part[k] + 1].isGenuine
                  /\ k > 1 => (part[k] < part[k - 1] <=> Given(q.options, {"NewestFirst"}) # {})
      <4>1. k \in 1 .. n /\ k \in DOMAIN ids /\ part[k] = ids[k] /\ k \notin bad
        BY <3>2, <3>15, <3>16, <3>17
      <4>2. verify(q.log[ids[k] + 1], q.isVerifying)
        BY <4>1 DEF bad
      <4>3. k > 1 => part[k - 1] = ids[k - 1]
        BY <3>15, <3>16, <4>1
      <4> QED
        BY <3>1, <4>1, <4>2, <4>3, Zenon DEF verify
    <3>19. ASSUME answered.error = NoError, Len(part) < q.wanted,
                  NEW i \in DOMAIN q.log, IsAsked(q, i - 1)
           PROVE  i - 1 \in ToSet(part)
      <4>1. ~(q.wanted <= end) /\ n = end
        BY <1>1, <3>7, <3>9, <3>15, <3>19 DEF n
      <4>2. failure = NoError
        BY <3>8, <3>19, <4>1
      <4>3. end # q.failsAfter /\ end + 1 \notin bad
        BY <3>11, <4>2
      <4>4. end = N
        <5>1. ASSUME NEW k \in bad, end = k - 1
              PROVE  FALSE
          <6>1. k \in Nat
            BY <3>2, <3>3
          <6>2. end + 1 = k
            BY <5>1, <6>1
          <6> QED
            BY <4>3, <6>2
        <5> QED
          BY <3>5, <3>6, <4>3, <5>1
      <4>5. PICK k \in DOMAIN ids : ids[k] = i - 1
        BY <3>1, <3>19
      <4>6. k \in DOMAIN part /\ part[k] = i - 1
        BY <3>2, <3>15, <4>1, <4>4, <4>5
      <4> QED
        BY <4>6 DEF ToSet
    <3> QED
      BY <2>1, <3>13, <3>14, <3>18, <3>19, Zenon
  <2> QED
    BY <2>2, <2>3
<1> QED
  BY <1>10, <1>11

-----------------------------------------------------------------------------
(***************************************************************************)
(* Questions and answers.                                                  *)
(***************************************************************************)
AllQuestions == ReadQuestions \cup QueryQuestions \cup SchemeQuestions

AnswersInv ==
    /\ question = NoQuestion \/ question \in AllQuestions
    /\ answer = NoAnswer \/ (question # NoQuestion /\ answer = AnswerTo(question))

LEMMA AnswersKept ==
    /\ Init => AnswersInv
    /\ AnswersInv /\ [Next]_vars => AnswersInv'
<1>1. Init => AnswersInv
  BY DEF Init, AnswersInv, AllQuestions
<1>2. ASSUME AnswersInv, [Next]_vars
      PROVE  AnswersInv'
  <2>1. CASE UNCHANGED <<question, answer>>
    BY <1>2, <2>1 DEF AnswersInv
  <2>2. CASE Answer
    BY <1>2, <2>2 DEF AnswersInv, Answer
  <2> QED
    BY <1>2, <2>1, <2>2 DEF Next, Call, vars
<1> QED
  BY <1>1, <1>2

LEMMA SeqsUpToAre ==
    ASSUME NEW S, NEW n \in Nat, NEW s \in SeqsUpTo(S, n)
    PROVE  s \in Seq(S)
<1>1. PICK k \in 0 .. n : s \in [1 .. k -> S]
  BY DEF SeqsUpTo
<1>2. k \in Nat
  OBVIOUS
<1> QED
  BY <1>1, <1>2

LEMMA ReadQuestionsAre == ReadQuestions \subseteq Questions
<1>1. \A a, b, c \in BOOLEAN : Event(a, b, c) \in Events
  BY DEF Event, Events
<1>2. Logs \subseteq Seq(Events)
  <2>1. /\ <<>> \in Seq(Events)
        /\ \A a, b, c \in Events : <<a, b, c>> \in Seq(Events)
        /\ \A a, b, c, d \in Events : <<a, b, c, d>> \in Seq(Events)
    OBVIOUS
  <2>2. /\ Event(TRUE, FALSE, TRUE) \in Events /\ Event(TRUE, TRUE, TRUE) \in Events
        /\ Event(FALSE, FALSE, TRUE) \in Events /\ Event(TRUE, FALSE, FALSE) \in Events
    BY <1>1
  <2> QED
    BY <2>1, <2>2 DEF Logs
<1>3. SeqsUpTo(Options, 2) \subseteq Seq(Options)
  BY SeqsUpToAre
<1> QED
  BY <1>2, <1>3 DEF ReadQuestions, Questions

LEMMA SchemeQuestionsAre ==
    ASSUME NEW q \in SchemeQuestions
    PROVE  /\ q.scheme \in Seq(Segments) /\ NewSubjectScheme(q.scheme)
           /\ q.values \in Seq(Seq(Parts)) /\ q.subject \in Seq(Parts)
<1> DEFINE Texts == {<<p>> : p \in Parts} \cup {<<p, p>> : p \in Names}
<1>1. /\ q.scheme \in Schemes /\ q.values \in SeqsUpTo(Texts, 2)
      /\ q.subject \in SeqsUpTo(Parts, 2)
  BY DEF SchemeQuestions
<1>2. q.scheme \in SeqsUpTo(Segments, 2) /\ NewSubjectScheme(q.scheme)
  BY <1>1 DEF Schemes
<1>3. Texts \subseteq Seq(Parts)
  <2>1. \A p \in Parts : <<p>> \in Seq(Parts) /\ <<p, p>> \in Seq(Parts)
    OBVIOUS
  <2> QED
    BY <2>1 DEF Parts
<1> HIDE DEF Texts
<1>4. q.values \in Seq(Texts)
  BY <1>1, SeqsUpToAre
<1>5. q.values \in Seq(Seq(Parts))
  BY <1>3, <1>4
<1> QED
  BY <1>1, <1>2, <1>5, SeqsUpToAre

\* The answers of Read in every behaviour: each is the one its question asks
\* for (ReadsMatchBounds; Read of store.go, read_options.go).
THEOREM ReadsAnswered == Spec => []ReadMatchesBounds
<1>1. AnswersInv => ReadMatchesBounds
  <2> SUFFICES ASSUME AnswersInv, IsAnswered("read")
               PROVE  MatchesBounds(question, answer)
    BY DEF ReadMatchesBounds
  <2>1. question \in AllQuestions /\ question.about = "read" /\ answer = AnswerTo(question)
    BY DEF AnswersInv, IsAnswered
  <2>2. question \in ReadQuestions
    BY <2>1 DEF AllQuestions, QueryQuestions, SchemeQuestions
  <2>3. question \in Questions
    BY <2>2, ReadQuestionsAre
  <2>4. answer = Read(question)
    BY <2>1 DEF AnswerTo
  <2> QED
    BY <2>3, <2>4, ReadsMatchBounds
<1> QED
  BY <1>1, AnswersKept, PTL DEF Spec

\* The answers of a subject scheme in every behaviour: Build and Match undo each
\* other (SchemesRoundTrip; subject.go).
THEOREM SchemesAnswered == Spec => []SubjectsRoundTrip
<1>1. AnswersInv => SubjectsRoundTrip
  <2> SUFFICES ASSUME AnswersInv, IsAnswered("scheme")
               PROVE  RoundTrips(question.scheme, question.values, question.subject, answer)
    BY DEF SubjectsRoundTrip
  <2>1. question \in AllQuestions /\ question.about = "scheme" /\ answer = AnswerTo(question)
    BY DEF AnswersInv, IsAnswered
  <2>2. question \in SchemeQuestions
    BY <2>1 DEF AllQuestions, QueryQuestions, ReadQuestions
  <2>3. answer = SchemeAnswer(question.scheme, question.values, question.subject)
    BY <2>1 DEF AnswerTo
  <2>4. /\ question.scheme \in Seq(Segments) /\ NewSubjectScheme(question.scheme)
        /\ question.values \in Seq(Seq(Parts)) /\ question.subject \in Seq(Parts)
    BY <2>2, SchemeQuestionsAre
  <2> QED
    BY <2>3, <2>4, SchemesRoundTrip
<1> QED
  BY <1>1, AnswersKept, PTL DEF Spec

-----------------------------------------------------------------------------
(***************************************************************************)
(* Queries.  A sequence is sound for a view if its items come out in the   *)
(* order in which the view is read, and it ends with a failure exactly if  *)
(* that is read.                                                           *)
(***************************************************************************)
QueryElements == [x : Nat, read : Nat]

QuerySequences == [items : Seq(QueryElements), fails : BOOLEAN, read : Nat]

\* Whether the failure of a view is among its first elements.
Meets(view, n) == \E i \in 1 .. n : At(view, i) = Failure

InOrder(s) ==
    /\ \A i \in DOMAIN s.items : s.items[i].read <= s.read
    /\ \A i, j \in DOMAIN s.items : i < j => s.items[i].read <= s.items[j].read

FailsInTime(view, s) ==
    /\ s.fails <=> Meets(view, s.read)
    /\ \A i \in DOMAIN s.items : ~Meets(view, s.items[i].read)

IsSound(view, s) == s \in QuerySequences /\ InOrder(s) /\ FailsInTime(view, s)

LEMMA SequenceIs ==
    ASSUME NEW items \in Seq(QueryElements), NEW fails \in BOOLEAN, NEW read \in Nat
    PROVE  /\ Sequence(items, fails, read) \in QuerySequences
           /\ Sequence(items, fails, read).items = items
           /\ Sequence(items, fails, read).fails = fails
           /\ Sequence(items, fails, read).read = read
BY DEF Sequence, QuerySequences

LEMMA ItemsAre ==
    ASSUME NEW s \in QuerySequences
    PROVE  /\ s.items \in Seq(QueryElements) /\ Len(s.items) \in Nat
           /\ DOMAIN s.items = 1 .. Len(s.items)
           /\ \A i \in DOMAIN s.items :
                 /\ s.items[i] \in QueryElements /\ s.items[i].x \in Nat /\ s.items[i].read \in Nat
                 /\ s.items[i] = Element(s.items[i].x, s.items[i].read)
           /\ s.fails \in BOOLEAN /\ s.read \in Nat
           /\ s = Sequence(s.items, s.fails, s.read)
<1>1. /\ s.items \in Seq(QueryElements) /\ s.fails \in BOOLEAN /\ s.read \in Nat
      /\ s = Sequence(s.items, s.fails, s.read)
  BY DEF QuerySequences, Sequence
<1>2. PICK items \in Seq(QueryElements) : items = s.items
  BY <1>1
<1>3. Len(items) \in Nat /\ DOMAIN items = 1 .. Len(items)
  OBVIOUS
<1>4. \A i \in DOMAIN items : items[i] \in QueryElements
  OBVIOUS
<1>5. \A e \in QueryElements : e.x \in Nat /\ e.read \in Nat /\ e = Element(e.x, e.read)
  BY DEF QueryElements, Element
<1> QED
  BY <1>1, <1>2, <1>3, <1>4, <1>5, Zenon

\* A sequence that takes on some items of another one, in their order.
LEMMA SoundPart ==
    ASSUME NEW view, NEW s, IsSound(view, s), NEW items \in Seq(QueryElements),
           NEW at \in [DOMAIN items -> DOMAIN s.items],
           \A i \in DOMAIN items : items[i].read = s.items[at[i]].read,
           \A i, j \in DOMAIN items : i < j => at[i] < at[j]
    PROVE  IsSound(view, Sequence(items, s.fails, s.read))
<1>1. s \in QuerySequences /\ InOrder(s) /\ FailsInTime(view, s)
  BY DEF IsSound
<1>2. PICK t : t = Sequence(items, s.fails, s.read)
  OBVIOUS
<1>3. t \in QuerySequences /\ t.items = items /\ t.fails = s.fails /\ t.read = s.read
  <2>1. s.fails \in BOOLEAN /\ s.read \in Nat
    BY <1>1, ItemsAre
  <2>2. PICK fails \in BOOLEAN : fails = s.fails
    BY <2>1
  <2>3. PICK read \in Nat : read = s.read
    BY <2>1
  <2>4. t = Sequence(items, fails, read)
    BY <1>2, <2>2, <2>3, Zenon
  <2>5. t \in QuerySequences /\ t.items = items /\ t.fails = fails /\ t.read = read
    BY <2>4, SequenceIs
  <2> QED
    BY <2>2, <2>3, <2>5, Zenon
<1>4. InOrder(t)
  <2>1. \A i \in DOMAIN items : at[i] \in DOMAIN s.items /\ items[i].read = s.items[at[i]].read
    OBVIOUS
  <2>2. \A i \in DOMAIN items : items[i].read <= t.read
    BY <1>1, <1>3, <2>1, Zenon DEF InOrder
  <2>3. ASSUME NEW i \in DOMAIN items, NEW j \in DOMAIN items, i < j
        PROVE  items[i].read <= items[j].read
    <3>1. s.items[at[i]].read <= s.items[at[j]].read
      BY <1>1, <2>1, <2>3, Zenon DEF InOrder
    <3> QED
      BY <2>1, <3>1
  <2> QED
    BY <1>3, <2>2, <2>3, Zenon DEF InOrder
<1>5. FailsInTime(view, t)
  BY <1>1, <1>3, Zenon DEF FailsInTime
<1> QED
  BY <1>2, <1>3, <1>4, <1>5 DEF IsSound

LEMMA PickIs ==
    ASSUME NEW S, NEW seq \in Seq(S), NEW P \in SUBSET (DOMAIN seq)
    PROVE  /\ P \in SUBSET Nat /\ IsFiniteSet(P) /\ Cardinality(P) \in Nat
           /\ Pick(seq, P) \in Seq(S) /\ DOMAIN Pick(seq, P) = 1 .. Cardinality(P)
           /\ \A n \in 1 .. Cardinality(P) : Nth(P, n) \in P /\ Pick(seq, P)[n] = seq[Nth(P, n)]
<1>1. Len(seq) \in Nat /\ DOMAIN seq = 1 .. Len(seq) /\ \A i \in DOMAIN seq : seq[i] \in S
  OBVIOUS
<1>2. P \in SUBSET Nat
  BY <1>1
<1>3. IsFiniteSet(P)
  <2>1. IsFiniteSet(1 .. Len(seq))
    BY <1>1, FS_Interval
  <2> QED
    BY <1>1, <2>1, FS_Subset
<1>4. PICK N \in Nat : N = Cardinality(P)
  BY <1>3, FS_CardinalityType
<1>5. \A n \in 1 .. N : Nth(P, n) \in P
  BY <1>2, <1>3, <1>4, NthIs
<1>6. PICK f : f = Pick(seq, P)
  OBVIOUS
<1>7. f = [n \in 1 .. N |-> seq[Nth(P, n)]]
  BY <1>4, <1>6 DEF Pick
<1>8. f \in [1 .. N -> S]
  BY <1>1, <1>5, <1>7
<1>9. f \in Seq(S) /\ DOMAIN f = 1 .. N
  BY <1>8
<1> QED
  BY <1>2, <1>3, <1>4, <1>5, <1>6, <1>7, <1>9

KeptOf(s) == {i \in DOMAIN s.items : keep(s.items[i].x)}

LEMMA WhereIsSound ==
    ASSUME NEW view, NEW s, IsSound(view, s)
    PROVE  IsSound(view, Where(s))
<1> DEFINE P == KeptOf(s)
           items == Pick(s.items, P)
           at == [n \in DOMAIN items |-> Nth(P, n)]
<1>1. s.items \in Seq(QueryElements) /\ P \in SUBSET (DOMAIN s.items)
  BY ItemsAre DEF IsSound, KeptOf
<1> HIDE DEF P
<1>2. /\ P \in SUBSET Nat /\ IsFiniteSet(P) /\ items \in Seq(QueryElements)
      /\ DOMAIN items = 1 .. Cardinality(P)
      /\ \A n \in 1 .. Cardinality(P) : Nth(P, n) \in P /\ items[n] = s.items[Nth(P, n)]
  BY <1>1, PickIs
<1> HIDE DEF items
<1>3. at \in [DOMAIN items -> DOMAIN s.items]
  BY <1>1, <1>2
<1>4. \A n \in DOMAIN items : at[n] = Nth(P, n)
  OBVIOUS
<1>5. \A m, n \in DOMAIN items : m < n => at[m] < at[n]
  BY <1>2, <1>4, NthGrows
<1> HIDE DEF at
<1>6. \A i \in DOMAIN items : items[i].read = s.items[at[i]].read
  BY <1>2, <1>4, Zenon
<1>7. IsSound(view, Sequence(items, s.fails, s.read))
  BY <1>2, <1>3, <1>5, <1>6, SoundPart
<1> QED
  BY <1>7 DEF Where, items, P, KeptOf

LEMMA SelectIsSound ==
    ASSUME NEW view, NEW s, IsSound(view, s)
    PROVE  /\ IsSound(view, Select(s))
           /\ Select(s).items = [i \in DOMAIN s.items |-> Element(convert(s.items[i].x), s.items[i].read)]
           /\ Select(s).fails = s.fails /\ Select(s).read = s.read
<1> DEFINE items == [i \in DOMAIN s.items |-> Element(convert(s.items[i].x), s.items[i].read)]
           at == [i \in DOMAIN s.items |-> i]
<1>1. /\ s \in QuerySequences /\ Len(s.items) \in Nat /\ DOMAIN s.items = 1 .. Len(s.items)
      /\ \A i \in DOMAIN s.items : s.items[i].x \in Nat /\ s.items[i].read \in Nat
      /\ s.fails \in BOOLEAN /\ s.read \in Nat
  BY ItemsAre DEF IsSound
<1>2. \A i \in DOMAIN s.items : items[i] \in QueryElements /\ items[i].read = s.items[i].read
  BY <1>1 DEF Element, QueryElements, convert
<1>3. items \in [1 .. Len(s.items) -> QueryElements]
  BY <1>1, <1>2
<1>4. items \in Seq(QueryElements) /\ DOMAIN items = DOMAIN s.items
  BY <1>1, <1>3
<1> HIDE DEF items
<1>5. at \in [DOMAIN items -> DOMAIN s.items] /\ \A i \in DOMAIN items : at[i] = i
  BY <1>4
<1> HIDE DEF at
<1>6. IsSound(view, Sequence(items, s.fails, s.read))
  BY <1>2, <1>4, <1>5, SoundPart
<1>7. Select(s) = Sequence(items, s.fails, s.read)
  BY DEF Select, items
<1>8. /\ Sequence(items, s.fails, s.read).items = items
      /\ Sequence(items, s.fails, s.read).fails = s.fails
      /\ Sequence(items, s.fails, s.read).read = s.read
  BY DEF Sequence
<1>9. IsSound(view, Select(s))
  BY <1>6, <1>7
<1> QED
  BY <1>7, <1>8, <1>9 DEF items

LEMMA SkipIsSound ==
    ASSUME NEW view, NEW s, IsSound(view, s), NEW count \in Nat
    PROVE  /\ IsSound(view, Skip(s, count))
           /\ \A i \in DOMAIN Skip(s, count).items :
                 /\ i \in Nat /\ i > 0 /\ count + i \in DOMAIN s.items
                 /\ Skip(s, count).items[i] = s.items[count + i]
           /\ \A i \in Nat : i > 0 /\ count + i \in DOMAIN s.items => i \in DOMAIN Skip(s, count).items
           /\ Skip(s, count).fails = s.fails /\ Skip(s, count).read = s.read
<1>1. /\ s \in QuerySequences /\ s.items \in Seq(QueryElements)
      /\ s.fails \in BOOLEAN /\ s.read \in Nat
  BY ItemsAre DEF IsSound
<1>2. PICK old \in Seq(QueryElements) : old = s.items
  BY <1>1
<1>3. PICK N \in Nat : N = Len(old) /\ DOMAIN old = 1 .. N
  OBVIOUS
<1> DEFINE items == SubSeq(old, count + 1, N)
           M == IF count + 1 <= N THEN N - count ELSE 0
           at == [i \in 1 .. M |-> count + i]
<1>4. M \in Nat /\ \A i \in 1 .. M : count + i \in 1 .. N
  BY <1>3
<1>5. \A i \in Nat : i > 0 /\ count + i \in 1 .. N => i \in 1 .. M
  BY <1>3
<1>6. /\ items \in Seq(QueryElements) /\ Len(items) = M /\ DOMAIN items = 1 .. M
      /\ \A i \in 1 .. M : items[i] = old[count + i]
  <2>1. items \in Seq(QueryElements)
    BY <1>3
  <2>2. Len(items) = M
    BY <1>3
  <2>3. DOMAIN items = 1 .. M
    BY <2>1, <2>2
  <2>4. ASSUME NEW i \in 1 .. M
        PROVE  items[i] = old[count + i]
    <3>1. count + 1 \in Nat /\ i \in 1 .. N + 1 - (count + 1) /\ (count + 1) + i - 1 = count + i
      BY <1>3
    <3> QED
      BY <1>3, <3>1
  <2> QED
    BY <2>1, <2>2, <2>3, <2>4
<1> HIDE DEF M, items
<1>7. at \in [DOMAIN items -> DOMAIN s.items] /\ \A i \in DOMAIN items : at[i] = count + i
  BY <1>2, <1>3, <1>4, <1>6
<1>8. \A i, j \in DOMAIN items : i < j => at[i] < at[j]
  BY <1>4, <1>6, <1>7
<1> HIDE DEF at
<1>9. \A i \in DOMAIN items : items[i].read = s.items[at[i]].read
  BY <1>2, <1>6, <1>7
<1>10. IsSound(view, Sequence(items, s.fails, s.read))
  BY <1>6, <1>7, <1>8, <1>9, SoundPart
<1>11. Skip(s, count) = Sequence(items, s.fails, s.read)
  BY <1>2, <1>3 DEF Skip, items
<1>12. Skip(s, count).items = items /\ Skip(s, count).fails = s.fails /\ Skip(s, count).read = s.read
  BY <1>1, <1>6, <1>11, SequenceIs
<1>13. \A i \in 1 .. M : i \in Nat /\ i > 0
  BY <1>4
<1> QED
  BY <1>2, <1>3, <1>4, <1>5, <1>6, <1>10, <1>11, <1>12, <1>13

\* The first elements of a sequence.
LEMMA PrefixIs ==
    ASSUME NEW S, NEW seq \in Seq(S), NEW n \in 0 .. Len(seq)
    PROVE  /\ SubSeq(seq, 1, n) \in Seq(S) /\ Len(SubSeq(seq, 1, n)) = n
           /\ DOMAIN SubSeq(seq, 1, n) = 1 .. n
           /\ \A i \in 1 .. n : SubSeq(seq, 1, n)[i] = seq[i]
<1>1. n \in Nat /\ \A i \in 1 .. n : seq[i] \in S
  OBVIOUS
<1>2. SubSeq(seq, 1, n) \in Seq(S)
  BY <1>1
<1>3. Len(SubSeq(seq, 1, n)) = n
  BY <1>1
<1>4. DOMAIN SubSeq(seq, 1, n) = 1 .. n
  BY <1>2, <1>3
<1>5. \A i \in 1 .. n : SubSeq(seq, 1, n)[i] = seq[i]
  BY <1>1
<1> QED
  BY <1>2, <1>3, <1>4, <1>5

\* The first items of a sequence, and the end that comes right after them.
LEMMA SoundPrefix ==
    ASSUME NEW view, NEW s, IsSound(view, s), NEW count \in DOMAIN s.items
    PROVE  IsSound(view, Sequence(SubSeq(s.items, 1, count), FALSE, s.items[count].read))
<1>1. s \in QuerySequences /\ InOrder(s) /\ FailsInTime(view, s)
  BY DEF IsSound
<1>2. PICK old \in Seq(QueryElements) : old = s.items
  BY <1>1, ItemsAre
<1>3. DOMAIN old = 1 .. Len(old) /\ Len(old) \in Nat /\ count \in DOMAIN old
  BY <1>2
<1>4. /\ count \in Nat /\ count \in 0 .. Len(old) /\ count \in 1 .. count
      /\ \A i \in 1 .. count : i \in DOMAIN old
  BY <1>3
<1>5. PICK items : items = SubSeq(old, 1, count)
  OBVIOUS
<1>6. /\ items \in Seq(QueryElements) /\ DOMAIN items = 1 .. count
      /\ \A i \in 1 .. count : items[i] = old[i]
  BY <1>4, <1>5, PrefixIs
<1>7. PICK read \in Nat : read = old[count].read
  BY <1>1, <1>2, <1>3, ItemsAre
<1>8. PICK t : t = Sequence(items, FALSE, read)
  OBVIOUS
<1>9. t \in QuerySequences /\ t.items = items /\ t.fails = FALSE /\ t.read = read
  BY <1>6, <1>8 DEF Sequence, QuerySequences
<1>10. \A i, j \in DOMAIN old : i < j => old[i].read <= old[j].read
  BY <1>1, <1>2 DEF InOrder
<1>11. InOrder(t)
  <2>1. ASSUME NEW i \in DOMAIN items
        PROVE  items[i].read <= read
    <3>1. i \in DOMAIN old /\ items[i] = old[i] /\ (i < count \/ i = count)
      BY <1>4, <1>6
    <3>2. CASE i < count
      BY <1>3, <1>7, <1>10, <3>1, <3>2
    <3>3. CASE i = count
      BY <1>7, <3>1, <3>3
    <3> QED
      BY <3>1, <3>2, <3>3
  <2>2. \A i, j \in DOMAIN items : i < j => items[i].read <= items[j].read
    BY <1>4, <1>6, <1>10
  <2> QED
    BY <1>9, <2>1, <2>2 DEF InOrder
<1>12. FailsInTime(view, t)
  <2>1. \A i \in DOMAIN old : ~Meets(view, old[i].read)
    BY <1>1, <1>2 DEF FailsInTime
  <2>2. \A i \in DOMAIN items : ~Meets(view, items[i].read)
    BY <1>4, <1>6, <2>1, Zenon
  <2>3. ~Meets(view, read)
    BY <1>3, <1>7, <2>1, Zenon
  <2> QED
    BY <1>9, <2>2, <2>3, Zenon DEF FailsInTime
<1>13. IsSound(view, t)
  BY <1>9, <1>11, <1>12 DEF IsSound
<1> QED
  BY <1>2, <1>5, <1>7, <1>8, <1>13, Zenon

LEMMA TakeIsSound ==
    ASSUME NEW view, NEW s, IsSound(view, s), NEW count \in Nat
    PROVE  IsSound(view, Take(s, count))
<1>1. s \in QuerySequences /\ Len(s.items) \in Nat /\ DOMAIN s.items = 1 .. Len(s.items)
  BY ItemsAre DEF IsSound
<1>2. CASE count = 0
  <2>1. PICK t : t = Sequence(<<>>, FALSE, 0)
    OBVIOUS
  <2>2. <<>> \in Seq(QueryElements) /\ DOMAIN <<>> = {}
    OBVIOUS
  <2>3. t \in QuerySequences /\ t.items = <<>> /\ t.fails = FALSE /\ t.read = 0
    BY <2>1, <2>2 DEF Sequence, QuerySequences
  <2>4. InOrder(t)
    BY <2>2, <2>3 DEF InOrder
  <2>5. FailsInTime(view, t)
    <3>1. 1 .. 0 = {}
      OBVIOUS
    <3> QED
      BY <2>2, <2>3, <3>1, Zenon DEF FailsInTime, Meets
  <2>6. Take(s, count) = t
    BY <1>2, <2>1 DEF Take
  <2> QED
    BY <2>3, <2>4, <2>5, <2>6 DEF IsSound
<1>3. CASE count # 0 /\ Len(s.items) < count
  BY <1>3 DEF Take
<1>4. CASE count # 0 /\ ~(Len(s.items) < count)
  <2>1. count \in DOMAIN s.items
    BY <1>1, <1>4
  <2>2. Take(s, count) = Sequence(SubSeq(s.items, 1, count), FALSE, s.items[count].read)
    BY <1>4 DEF Take
  <2> QED
    BY <2>1, <2>2, SoundPrefix
<1> QED
  BY <1>2, <1>3, <1>4

\* Sorting gives a sequence of numbers.
LEMMA InsertedType ==
    ASSUME NEW sorted \in Seq(Nat), NEW order, NEW item \in Nat
    PROVE  Inserted(sorted, order, item) \in Seq(Nat)
<1> DEFINE before == {i \in DOMAIN sorted : ~isGreater(order, sorted[i], item)}
           place == IF before = {} THEN 0 ELSE Max(before)
<1>1. PICK N \in Nat : N = Len(sorted) /\ DOMAIN sorted = 1 .. N
  OBVIOUS
<1>2. before \in SUBSET Nat /\ \A i \in before : i \in 1 .. N /\ i <= N
  BY <1>1
<1>3. place \in 0 .. N
  <2> HIDE DEF before
  <2>1. before # {} => Max(before) \in before
    BY <1>2, MaxIs
  <2>2. CASE before = {}
    BY <2>2
  <2>3. CASE before # {}
    <3>1. PICK m : m = Max(before)
      OBVIOUS
    <3>2. m \in 1 .. N /\ place = m
      BY <1>2, <2>1, <2>3, <3>1
    <3> QED
      BY <3>2
  <2> QED
    BY <2>2, <2>3
<1>4. Inserted(sorted, order, item) =
         SubSeq(sorted, 1, place) \o <<item>> \o SubSeq(sorted, place + 1, N)
  BY <1>1 DEF Inserted
<1> HIDE DEF place
<1>5. SubSeq(sorted, 1, place) \in Seq(Nat) /\ SubSeq(sorted, place + 1, N) \in Seq(Nat)
  BY <1>1, <1>3
<1>6. <<item>> \in Seq(Nat)
  OBVIOUS
<1>7. SubSeq(sorted, 1, place) \o <<item>> \in Seq(Nat)
  BY <1>5, <1>6, ConcatProperties, Zenon
<1> QED
  BY <1>4, <1>5, <1>7, ConcatProperties, Zenon

LEMMA SortType ==
    ASSUME NEW items \in Seq(Nat), NEW order
    PROVE  StableSort(items, order) \in Seq(Nat)
<1> DEFINE N == Len(items)
           V == Seq(Nat)
           a == << >>
           E(f) == [n \in 0 .. N |-> IF n = 0 THEN a ELSE Inserted(f[n - 1], order, items[n])]
           G == [n \in 1 .. N |-> [x \in V |-> Inserted(x, order, items[n])]]
<1>1. N \in Nat /\ \A n \in 1 .. N : items[n] \in Nat
  OBVIOUS
<1>2. StableSort(items, order) = (CHOOSE f : f = E(f))[N]
  BY DEF StableSort, Folded
<1>3. a \in V
  OBVIOUS
<1>4. \A n \in 1 .. N, x \in V : Inserted(x, order, items[n]) \in V
  BY <1>1, InsertedType
<1>5. G \in [1 .. N -> [V -> V]]
  BY <1>4
<1> HIDE DEF V, N, a
<1>6. PICK f : Loop(V, a, N, G, f)
  <2> HIDE DEF G
  <2> QED
    BY <1>1, <1>3, <1>5, LoopExists
<1>7. f = E(f)
  <2>1. f \in [0 .. N -> V] /\ f[0] = a /\ \A n \in 1 .. N : f[n] = G[n][f[n - 1]]
    BY <1>6 DEF Loop
  <2>2. \A n \in 1 .. N : n - 1 \in 0 .. N
    BY <1>1
  <2>3. \A n \in 1 .. N : f[n - 1] \in V
    <3> HIDE DEF G
    <3> QED
      BY <2>1, <2>2
  <2>4. \A n \in 1 .. N : f[n] = Inserted(f[n - 1], order, items[n])
    BY <2>1, <2>3
  <2>5. \A n \in 0 .. N : n = 0 \/ (n # 0 /\ n \in 1 .. N)
    BY <1>1
  <2>6. \A n \in 0 .. N : f[n] = IF n = 0 THEN a ELSE Inserted(f[n - 1], order, items[n])
    <3> HIDE DEF G
    <3> QED
      BY <2>1, <2>4, <2>5, Zenon
  <2> HIDE DEF G
  <2> QED
    BY <2>1, <2>6
<1>8. PICK r : r = E(r) /\ StableSort(items, order) = r[N]
  <2> HIDE DEF E
  <2> QED
    BY <1>2, <1>7
<1>9. r[0] = a /\ \A n \in 1 .. N : r[n] = Inserted(r[n - 1], order, items[n])
  <2>1. 0 \in 0 .. N /\ \A n \in 1 .. N : n \in 0 .. N /\ n # 0
    BY <1>1
  <2> QED
    BY <1>8, <2>1
<1> DEFINE T == {n \in Nat : n <= N => r[n] \in V}
<1>10. 0 \in T
  BY <1>3, <1>9
<1>11. ASSUME NEW n \in Nat, n \in T
       PROVE  n + 1 \in T
  <2> SUFFICES ASSUME n + 1 <= N
               PROVE  r[n + 1] \in V
    OBVIOUS
  <2>1. n + 1 \in 1 .. N /\ (n + 1) - 1 = n /\ n <= N
    BY <1>1
  <2>2. r[n] \in V /\ r[n + 1] = Inserted(r[n], order, items[n + 1])
    BY <1>9, <1>11, <2>1
  <2> QED
    BY <1>4, <2>1, <2>2
<1>12. \A n \in Nat : n \in T
  <2> HIDE DEF T
  <2> QED
    BY <1>10, <1>11, Induct
<1> QED
  BY <1>1, <1>8, <1>12 DEF V

\* What is sorted has been read to the end.
LEMMA OrderIsSound ==
    ASSUME NEW view, NEW s, IsSound(view, s), NEW order
    PROVE  /\ IsSound(view, OrderByFunc(s, order))
           /\ OrderByFunc(s, order).read = s.read
           /\ \A i \in DOMAIN OrderByFunc(s, order).items :
                 OrderByFunc(s, order).items[i].read = s.read
<1>1. s \in QuerySequences /\ FailsInTime(view, s)
  BY DEF IsSound
<1>2. PICK fails \in BOOLEAN : fails = s.fails
  BY <1>1, ItemsAre
<1>3. PICK read \in Nat : read = s.read
  BY <1>1, ItemsAre
<1>4. PICK items : items = IF s.fails THEN <<>> ELSE Sorted(s, order)
  OBVIOUS
<1>5. /\ items \in Seq(QueryElements)
      /\ \A i \in DOMAIN items : ~fails /\ items[i].read = read
  <2>1. CASE fails
    <3>1. items = <<>> /\ DOMAIN <<>> = {} /\ <<>> \in Seq(QueryElements)
      BY <1>2, <1>4, <2>1
    <3> QED
      BY <3>1
  <2>2. CASE ~fails
    <3> DEFINE values == [i \in DOMAIN s.items |-> s.items[i].x]
    <3>1. /\ Len(s.items) \in Nat /\ DOMAIN s.items = 1 .. Len(s.items)
          /\ \A i \in DOMAIN s.items : s.items[i].x \in Nat
      BY <1>1, ItemsAre
    <3>2. values \in [1 .. Len(s.items) -> Nat]
      BY <3>1
    <3>3. values \in Seq(Nat)
      BY <3>1, <3>2
    <3>4. PICK sorted \in Seq(Nat) : sorted = StableSort(values, order)
      <4> HIDE DEF values
      <4> QED
        BY <3>3, SortType
    <3>5. items = [i \in DOMAIN sorted |-> Element(sorted[i], read)]
      BY <1>2, <1>3, <1>4, <2>2, <3>4 DEF Sorted
    <3>6. /\ Len(sorted) \in Nat /\ DOMAIN sorted = 1 .. Len(sorted)
          /\ \A i \in DOMAIN sorted : sorted[i] \in Nat
      OBVIOUS
    <3>7. \A x \in Nat : Element(x, read) \in QueryElements /\ Element(x, read).read = read
      BY DEF Element, QueryElements
    <3>8. items \in [1 .. Len(sorted) -> QueryElements]
      BY <3>5, <3>6, <3>7
    <3>9. items \in Seq(QueryElements)
      BY <3>6, <3>8
    <3> QED
      BY <2>2, <3>5, <3>7, <3>6, <3>9
  <2> QED
    BY <2>1, <2>2
<1>6. PICK t : t = OrderByFunc(s, order)
  OBVIOUS
<1>7. t = Sequence(items, fails, read)
  <2>1. t = Sequence(items, s.fails, s.read)
    BY <1>4, <1>6 DEF OrderByFunc
  <2> QED
    BY <1>2, <1>3, <2>1
<1>8. t \in QuerySequences /\ t.items = items /\ t.fails = fails /\ t.read = read
  BY <1>5, <1>7, SequenceIs
<1>9. InOrder(t)
  <2>1. read <= read
    OBVIOUS
  <2> QED
    BY <1>5, <1>8, <2>1, Zenon DEF InOrder
<1>10. FailsInTime(view, t)
  <2>1. fails <=> Meets(view, read)
    BY <1>1, <1>2, <1>3, Zenon DEF FailsInTime
  <2> QED
    BY <1>5, <1>8, <2>1, Zenon DEF FailsInTime
<1> QED
  BY <1>3, <1>5, <1>6, <1>8, <1>9, <1>10, Zenon DEF IsSound

-----------------------------------------------------------------------------
\* Views: only their last element may be a failure.
ViewSeqs == {v \in Seq(Items \cup {Failure}) : \A i \in DOMAIN v : v[i] = Failure => i = Len(v)}

\* How many items come out of a view.
ItemsOf(v) == IF v # <<>> /\ Last(v) = Failure THEN Len(v) - 1 ELSE Len(v)

LEMMA ViewIs ==
    ASSUME NEW v \in ViewSeqs
    PROVE  /\ Len(v) \in Nat /\ DOMAIN v = 1 .. Len(v) /\ ItemsOf(v) \in Nat
           /\ \A i \in 1 .. Len(v) : v[i] # EndOfView
           /\ \A i \in 1 .. ItemsOf(v) : i \in 1 .. Len(v) /\ v[i] \in Nat /\ v[i] # Failure
           /\ \/ /\ Len(v) > 0 /\ v[Len(v)] = Failure /\ ItemsOf(v) = Len(v) - 1
                 /\ v # <<>> /\ Last(v) = Failure
              \/ /\ ItemsOf(v) = Len(v) /\ \A i \in 1 .. Len(v) : v[i] # Failure
                 /\ ~(v # <<>> /\ Last(v) = Failure)
<1>1. /\ v \in Seq(Items \cup {Failure}) /\ Len(v) \in Nat /\ DOMAIN v = 1 .. Len(v)
      /\ \A i \in 1 .. Len(v) : v[i] \in Items \cup {Failure}
      /\ \A i \in 1 .. Len(v) : v[i] = Failure => i = Len(v)
      /\ v # <<>> <=> Len(v) > 0
  BY DEF ViewSeqs
<1>2. \A i \in 1 .. Len(v) : v[i] # EndOfView /\ (v[i] # Failure => v[i] \in Nat)
  BY <1>1, QueryAssumption
<1>3. PICK L \in Nat : L = Len(v)
  BY <1>1
<1>4. CASE v # <<>> /\ Last(v) = Failure
  <2>1. L > 0 /\ v[L] = Failure /\ ItemsOf(v) = L - 1
    BY <1>1, <1>3, <1>4 DEF Last, ItemsOf
  <2>2. L - 1 \in Nat /\ \A i \in 1 .. L - 1 : i \in 1 .. L /\ i # L
    BY <2>1
  <2>3. \A i \in 1 .. L - 1 : i \in 1 .. L /\ v[i] \in Nat /\ v[i] # Failure
    BY <1>1, <1>2, <1>3, <2>2, Zenon
  <2> QED
    BY <1>1, <1>2, <1>3, <1>4, <2>1, <2>2, <2>3, Zenon
<1>5. CASE ~(v # <<>> /\ Last(v) = Failure)
  <2>1. ItemsOf(v) = L
    BY <1>3, <1>5 DEF ItemsOf
  <2>2. ASSUME NEW i \in 1 .. L, v[i] = Failure
        PROVE  FALSE
    <3>1. i = L /\ L > 0
      <4>1. i = L
        BY <1>1, <1>3, <2>2, Zenon
      <4> QED
        BY <4>1
    <3> QED
      BY <1>1, <1>3, <1>5, <2>2, <3>1 DEF Last
  <2> QED
    BY <1>1, <1>2, <1>3, <1>5, <2>1, <2>2, Zenon
<1> QED
  BY <1>4, <1>5

LEMMA SequenceOfIs ==
    ASSUME NEW v \in ViewSeqs
    PROVE  LET s == SequenceOf(v)
           IN  /\ s \in QuerySequences /\ DOMAIN s.items = 1 .. ItemsOf(v)
               /\ \A i \in 1 .. ItemsOf(v) : s.items[i] = Element(v[i], i)
               /\ s.fails <=> (v # <<>> /\ Last(v) = Failure)
               /\ s.read = ItemsOf(v) + 1
<1> DEFINE fails == v # <<>> /\ Last(v) = Failure
           items == IF fails THEN Front(v) ELSE v
           out == [i \in DOMAIN items |-> Element(items[i], i)]
           read == IF fails THEN Len(v) ELSE Len(v) + 1
<1>1. SequenceOf(v) = Sequence(out, fails, read)
  BY DEF SequenceOf
<1>2. /\ Len(v) \in Nat /\ DOMAIN v = 1 .. Len(v) /\ ItemsOf(v) \in Nat
      /\ \A i \in 1 .. ItemsOf(v) : v[i] \in Nat
      /\ (fails => Len(v) > 0 /\ ItemsOf(v) = Len(v) - 1)
      /\ (~fails => ItemsOf(v) = Len(v))
  BY ViewIs
<1>3. read = ItemsOf(v) + 1 /\ read \in Nat
  BY <1>2
<1>4. DOMAIN items = 1 .. ItemsOf(v) /\ \A i \in 1 .. ItemsOf(v) : items[i] = v[i]
  <2>1. CASE fails
    <3>1. v \in Seq(Items \cup {Failure}) /\ ItemsOf(v) \in 0 .. Len(v)
      <4>1. Len(v) - 1 \in 0 .. Len(v)
        <5> HIDE DEF fails
        <5>1. Len(v) \in Nat /\ Len(v) > 0
          BY <1>2, <2>1
        <5> QED
          BY <5>1
      <4> QED
        <5>1. ItemsOf(v) = Len(v) - 1
          <6> HIDE DEF fails
          <6> QED
            BY <1>2, <2>1
        <5>2. v \in Seq(Items \cup {Failure})
          BY DEF ViewSeqs
        <5> QED
          BY <4>1, <5>1, <5>2, Zenon
    <3>2. items = SubSeq(v, 1, ItemsOf(v))
      BY <1>2, <2>1 DEF Front
    <3> HIDE DEF items
    <3> QED
      BY <3>1, <3>2, PrefixIs
  <2>2. CASE ~fails
    BY <1>2, <2>2
  <2> QED
    BY <2>1, <2>2
<1> HIDE DEF items, fails, read
<1>5. out \in [1 .. ItemsOf(v) -> QueryElements] /\ \A i \in 1 .. ItemsOf(v) : out[i] = Element(v[i], i)
  <2>1. \A x \in Nat, i \in Nat : Element(x, i) \in QueryElements
    BY DEF Element, QueryElements
  <2> QED
    BY <1>2, <1>4, <2>1
<1>6. out \in Seq(QueryElements) /\ DOMAIN out = 1 .. ItemsOf(v)
  BY <1>2, <1>5
<1> HIDE DEF out
<1>7. fails \in BOOLEAN
  BY DEF fails
<1>8. PICK s : s = Sequence(out, fails, read)
  OBVIOUS
<1>9. s \in QuerySequences /\ s.items = out /\ s.fails = fails /\ s.read = read
  BY <1>3, <1>6, <1>7, <1>8, SequenceIs
<1>10. s.fails <=> (v # <<>> /\ Last(v) = Failure)
  BY <1>9, Zenon DEF fails
<1> QED
  BY <1>1, <1>3, <1>5, <1>6, <1>8, <1>9, <1>10, Zenon

LEMMA SequenceOfIsSound ==
    ASSUME NEW v \in ViewSeqs
    PROVE  IsSound(v, SequenceOf(v))
<1>1. PICK s : s = SequenceOf(v)
  OBVIOUS
<1>2. /\ s \in QuerySequences /\ DOMAIN s.items = 1 .. ItemsOf(v)
      /\ \A i \in 1 .. ItemsOf(v) : s.items[i] = Element(v[i], i)
      /\ s.fails <=> (v # <<>> /\ Last(v) = Failure)
      /\ s.read = ItemsOf(v) + 1
  BY <1>1, SequenceOfIs, Zenon
<1>3. PICK n \in Nat : n = ItemsOf(v)
  BY ViewIs
<1>4. \A i \in 1 .. n : s.items[i].read = i
  <2>1. \A x, i : Element(x, i).read = i
    BY DEF Element
  <2> TAKE i \in 1 .. n
  <2>2. s.items[i] = Element(v[i], i)
    BY <1>2, <1>3
  <2> QED
    BY <2>1, <2>2
<1>5. InOrder(s)
  <2>1. \A i \in 1 .. n : s.items[i].read <= n + 1
    BY <1>4
  <2>2. \A i, j \in 1 .. n : i < j => s.items[i].read <= s.items[j].read
    BY <1>4
  <2> QED
    BY <1>2, <1>3, <2>1, <2>2, Zenon DEF InOrder
<1>6. \A i \in 1 .. n : At(v, i) # Failure
  BY <1>3, ViewIs DEF At
<1>7. \A i \in 1 .. n : ~Meets(v, i)
  <2>1. \A i \in 1 .. n : \A j \in 1 .. i : j \in 1 .. n
    BY <1>3
  <2> QED
    BY <1>6, <2>1 DEF Meets
<1>8. Meets(v, n + 1) <=> At(v, n + 1) = Failure
  <2>1. \A i \in 1 .. n + 1 : i \in 1 .. n \/ i = n + 1
    OBVIOUS
  <2>2. n + 1 \in 1 .. n + 1
    OBVIOUS
  <2> QED
    BY <1>6, <2>1, <2>2 DEF Meets
<1>9. At(v, n + 1) = Failure <=> (v # <<>> /\ Last(v) = Failure)
  <2>1. Len(v) \in Nat /\ DOMAIN v = 1 .. Len(v)
    BY ViewIs
  <2>2. CASE v # <<>> /\ Last(v) = Failure
    <3>1. v[Len(v)] = Failure /\ n + 1 = Len(v) /\ Len(v) \in 1 .. Len(v)
      BY <1>3, <2>2, ViewIs
    <3> QED
      BY <2>1, <2>2, <3>1 DEF At
  <2>3. CASE ~(v # <<>> /\ Last(v) = Failure)
    <3>1. n = Len(v) /\ n + 1 \notin 1 .. Len(v)
      BY <1>3, <2>3, ViewIs
    <3>2. At(v, n + 1) = EndOfView
      BY <2>1, <3>1 DEF At
    <3> QED
      BY <2>3, <3>2, QueryAssumption
  <2> QED
    BY <2>2, <2>3
<1>10. FailsInTime(v, s)
  <2>1. s.fails <=> Meets(v, s.read)
    BY <1>2, <1>3, <1>8, <1>9
  <2>2. \A i \in DOMAIN s.items : ~Meets(v, s.items[i].read)
    BY <1>2, <1>3, <1>4, <1>7
  <2> QED
    BY <2>1, <2>2, Zenon DEF FailsInTime
<1> QED
  BY <1>1, <1>2, <1>5, <1>10 DEF IsSound

-----------------------------------------------------------------------------
\* Of two sequences, the other one goes like the first as long as no more than
\* n elements of the view are read.
Follows(n, s, t) ==
    /\ \A i \in DOMAIN s.items :
          s.items[i].read <= n => i \in DOMAIN t.items /\ t.items[i] = s.items[i]
    /\ s.read <= n => t = s

LEMMA FollowsItself ==
    ASSUME NEW n, NEW s
    PROVE  Follows(n, s, s)
BY DEF Follows

LEMMA ViewsFollow ==
    ASSUME NEW v \in ViewSeqs, NEW w \in ViewSeqs, NEW n \in Nat, Agree(v, w, n)
    PROVE  Follows(n, SequenceOf(v), SequenceOf(w))
<1>1. PICK s : s = SequenceOf(v)
  OBVIOUS
<1>2. PICK t : t = SequenceOf(w)
  OBVIOUS
<1>3. PICK k \in Nat : k = ItemsOf(v)
  BY ViewIs
<1>4. PICK l \in Nat : l = ItemsOf(w)
  BY ViewIs
<1>5. /\ DOMAIN s.items = 1 .. k /\ s.read = k + 1
      /\ \A i \in 1 .. k : s.items[i] = Element(v[i], i)
  BY <1>1, <1>3, SequenceOfIs, Zenon
<1>6. /\ DOMAIN t.items = 1 .. l
      /\ \A i \in 1 .. l : t.items[i] = Element(w[i], i)
  BY <1>2, <1>4, SequenceOfIs, Zenon
<1>7. PICK L \in Nat : L = Len(v)
  BY ViewIs
<1>8. PICK M \in Nat : M = Len(w)
  BY ViewIs
<1>9. /\ DOMAIN v = 1 .. L /\ DOMAIN w = 1 .. M
      /\ \A i \in 1 .. L : v[i] # EndOfView
      /\ \A i \in 1 .. M : w[i] # EndOfView
      /\ \A i \in 1 .. k : i \in 1 .. L /\ v[i] # Failure
  BY <1>3, <1>7, <1>8, ViewIs, Zenon
<1>10. ASSUME NEW i \in 1 .. n
       PROVE  /\ i \in 1 .. L => i \in 1 .. M /\ w[i] = v[i]
              /\ i \notin 1 .. L => i \notin 1 .. M
  <2>1. At(v, i) = At(w, i)
    BY DEF Agree
  <2> QED
    BY <1>9, <2>1 DEF At
<1>11. /\ \/ M > 0 /\ w[M] = Failure /\ l = M - 1
          \/ l = M /\ \A i \in 1 .. M : w[i] # Failure
       /\ \A i \in 1 .. M : w[i] = Failure => i = M
  <2>1. \A i \in 1 .. M : w[i] = Failure => i = M
    BY <1>8, <1>9 DEF ViewSeqs
  <2> QED
    BY <1>4, <1>8, <2>1, ViewIs, Zenon
<1>12. ASSUME NEW i \in DOMAIN s.items, s.items[i].read <= n
       PROVE  i \in DOMAIN t.items /\ t.items[i] = s.items[i]
  <2>1. i \in 1 .. k /\ s.items[i] = Element(v[i], i)
    BY <1>5
  <2>2. i <= n
    <3>1. Element(v[i], i).read = i
      BY DEF Element
    <3> QED
      BY <1>12, <2>1, <3>1
  <2>3. i \in 1 .. n
    BY <2>1, <2>2
  <2>4. i \in 1 .. M /\ w[i] = v[i] /\ w[i] # Failure
    BY <1>9, <1>10, <2>1, <2>3
  <2>5. i \in 1 .. l
    <3>1. CASE M > 0 /\ w[M] = Failure /\ l = M - 1
      <4>1. i # M
        BY <2>4, <3>1
      <4> QED
        BY <2>4, <3>1, <4>1
    <3>2. CASE l = M
      BY <2>4, <3>2
    <3> QED
      BY <1>11, <3>1, <3>2
  <2> QED
    BY <1>6, <2>1, <2>4, <2>5
<1>13. ASSUME s.read <= n
       PROVE  v = w
  <2>1. k + 1 <= n
    BY <1>5, <1>13
  <2>2. /\ \/ L > 0 /\ v[L] = Failure /\ k = L - 1
           \/ k = L
    BY <1>3, <1>7, ViewIs, Zenon
  <2>3. \A i \in 1 .. L : i \in 1 .. n
    BY <2>1, <2>2
  <2>4. \A i \in 1 .. L : i \in 1 .. M /\ w[i] = v[i]
    BY <1>10, <2>3
  <2>5. L = M
    <3>1. CASE L > 0 /\ v[L] = Failure /\ k = L - 1
      <4>1. L \in 1 .. L
        BY <3>1
      <4>2. L \in 1 .. M /\ w[L] = Failure
        BY <2>4, <3>1, <4>1
      <4> QED
        BY <1>11, <4>2
    <3>2. CASE k = L
      <4>1. L + 1 \in 1 .. n /\ L + 1 \notin 1 .. L
        BY <2>1, <3>2
      <4>2. L + 1 \notin 1 .. M
        BY <1>10, <4>1
      <4>3. ~(M > L)
        BY <4>2
      <4>4. ~(M < L)
        <5>1. M < L => L \in 1 .. L /\ L \notin 1 .. M
          OBVIOUS
        <5> QED
          BY <2>4, <5>1
      <4> QED
        BY <4>3, <4>4
    <3> QED
      BY <2>2, <3>1, <3>2
  <2>6. v \in Seq(Items \cup {Failure}) /\ w \in Seq(Items \cup {Failure})
    BY DEF ViewSeqs
  <2> QED
    BY <1>7, <1>8, <2>4, <2>5, <2>6, SeqEqual
<1> QED
  BY <1>1, <1>2, <1>12, <1>13 DEF Follows

\* A step of a query that reads the view to the end before it ends itself goes
\* on like another one if its items do.
LEMMA StepFollows ==
    ASSUME NEW n, NEW s, NEW t, Follows(n, s, t), NEW x, NEW y,
           t = s => y = x, x.read = s.read,
           ~(s.read <= n) => \A i \in DOMAIN x.items :
               x.items[i].read <= n => i \in DOMAIN y.items /\ y.items[i] = x.items[i]
    PROVE  Follows(n, x, y)
<1>1. CASE s.read <= n
  BY <1>1, FollowsItself DEF Follows
<1>2. CASE ~(s.read <= n)
  BY <1>2, Zenon DEF Follows
<1> QED
  BY <1>1, <1>2

LEMMA WhereFollows ==
    ASSUME NEW v, NEW s, IsSound(v, s), NEW w, NEW t, IsSound(w, t),
           NEW n \in Nat, Follows(n, s, t)
    PROVE  Follows(n, Where(s), Where(t))
<1> DEFINE P == KeptOf(s)
           Q == KeptOf(t)
<1>1. /\ s \in QuerySequences /\ s.items \in Seq(QueryElements) /\ Len(s.items) \in Nat
      /\ DOMAIN s.items = 1 .. Len(s.items)
      /\ \A i \in DOMAIN s.items : s.items[i].read \in Nat
      /\ P \in SUBSET (DOMAIN s.items)
  BY ItemsAre DEF IsSound, KeptOf
<1>2. /\ t \in QuerySequences /\ t.items \in Seq(QueryElements) /\ Q \in SUBSET (DOMAIN t.items)
      /\ DOMAIN t.items = 1 .. Len(t.items) /\ Len(t.items) \in Nat
  BY ItemsAre DEF IsSound, KeptOf
<1>3. \A i, j \in DOMAIN s.items : i < j => s.items[i].read <= s.items[j].read
  BY DEF IsSound, InOrder
<1>4. \A i \in DOMAIN s.items :
         s.items[i].read <= n => i \in DOMAIN t.items /\ t.items[i] = s.items[i]
  BY DEF Follows
<1>5. \A i : (i \in P <=> i \in DOMAIN s.items /\ keep(s.items[i].x))
          /\ (i \in Q <=> i \in DOMAIN t.items /\ keep(t.items[i].x))
  BY DEF KeptOf
<1> HIDE DEF P, Q
<1>6. /\ P \in SUBSET Nat /\ IsFiniteSet(P)
      /\ DOMAIN Pick(s.items, P) = 1 .. Cardinality(P)
      /\ \A k \in 1 .. Cardinality(P) : Nth(P, k) \in P /\ Pick(s.items, P)[k] = s.items[Nth(P, k)]
  BY <1>1, PickIs
<1>7. /\ Q \in SUBSET Nat /\ IsFiniteSet(Q)
      /\ DOMAIN Pick(t.items, Q) = 1 .. Cardinality(Q)
      /\ \A k \in 1 .. Cardinality(Q) : Pick(t.items, Q)[k] = t.items[Nth(Q, k)]
  BY <1>2, PickIs
<1>8. ASSUME NEW k \in 1 .. Cardinality(P), s.items[Nth(P, k)].read <= n
      PROVE  k \in 1 .. Cardinality(Q) /\ t.items[Nth(Q, k)] = s.items[Nth(P, k)]
  <2>1. PICK p : p = Nth(P, k)
    OBVIOUS
  <2>2. p \in P /\ p \in Nat /\ p \in DOMAIN s.items /\ Cardinality(Upto(P, p)) = k
    BY <1>1, <1>6, <2>1, NthIs
  <2>3. ASSUME NEW i \in DOMAIN s.items, i <= p
        PROVE  i \in DOMAIN t.items /\ t.items[i] = s.items[i]
    <3>1. i \in Nat /\ (i < p \/ i = p)
      BY <1>1, <2>2, <2>3
    <3>2. s.items[i].read <= s.items[p].read
      <4>1. CASE i < p
        BY <1>3, <2>2, <4>1
      <4>2. CASE i = p
        BY <1>1, <2>2, <4>2
      <4> QED
        BY <3>1, <4>1, <4>2
    <3>3. s.items[i].read <= n
      <4>1. s.items[i].read \in Nat /\ s.items[p].read \in Nat /\ s.items[p].read <= n
        BY <1>1, <1>8, <2>1, <2>2
      <4> QED
        BY <3>2, <4>1
    <3> QED
      BY <1>4, <3>3
  <2>4. \A i \in Nat : i <= p => (i \in P <=> i \in Q)
    <3> TAKE i \in Nat
    <3> HAVE i <= p
    <3>1. i \in DOMAIN s.items => (i \in P <=> i \in Q)
      BY <1>5, <2>3, Zenon
    <3>2. i \in Q => i \in DOMAIN s.items
      <4>1. i \in Q => i \in 1 .. Len(t.items)
        BY <1>2
      <4> QED
        BY <1>1, <2>2, <4>1
    <3>3. i \in P => i \in DOMAIN s.items
      BY <1>1
    <3> QED
      BY <3>1, <3>2, <3>3, Zenon
  <2>5. Upto(P, p) = Upto(Q, p)
    BY <1>6, <1>7, <2>4 DEF Upto
  <2>6. p \in Q /\ t.items[p] = s.items[p]
    <3>1. p <= p
      BY <2>2
    <3> QED
      BY <2>2, <2>3, <2>4, <3>1
  <2>7. k \in 1 .. Cardinality(Q) /\ Nth(Q, k) = p
    BY <1>7, <2>2, <2>5, <2>6, RankBounds, NthOfRank
  <2> QED
    BY <2>1, <2>6, <2>7
<1>9. Where(s) = Sequence(Pick(s.items, P), s.fails, s.read)
  BY DEF Where, P, KeptOf
<1>10. Where(t) = Sequence(Pick(t.items, Q), t.fails, t.read)
  BY DEF Where, Q, KeptOf
<1>11. /\ Where(s).items = Pick(s.items, P) /\ Where(s).read = s.read
       /\ Where(t).items = Pick(t.items, Q)
  BY <1>9, <1>10 DEF Sequence
<1>12. ASSUME NEW i \in DOMAIN Where(s).items, Where(s).items[i].read <= n
       PROVE  i \in DOMAIN Where(t).items /\ Where(t).items[i] = Where(s).items[i]
  BY <1>6, <1>7, <1>8, <1>11, <1>12
<1> QED
  BY <1>11, <1>12, StepFollows

LEMMA SelectFollows ==
    ASSUME NEW v, NEW s, IsSound(v, s), NEW w, NEW t, IsSound(w, t),
           NEW n \in Nat, Follows(n, s, t)
    PROVE  Follows(n, Select(s), Select(t))
<1>1. /\ Select(s).items = [i \in DOMAIN s.items |-> Element(convert(s.items[i].x), s.items[i].read)]
      /\ Select(t).items = [i \in DOMAIN t.items |-> Element(convert(t.items[i].x), t.items[i].read)]
      /\ Select(s).read = s.read
  BY SelectIsSound
<1>2. \A x, read : Element(x, read).read = read
  BY DEF Element
<1>3. ASSUME NEW i \in DOMAIN Select(s).items, Select(s).items[i].read <= n
      PROVE  i \in DOMAIN Select(t).items /\ Select(t).items[i] = Select(s).items[i]
  <2>1. i \in DOMAIN s.items /\ s.items[i].read <= n
    BY <1>1, <1>2, <1>3
  <2>2. i \in DOMAIN t.items /\ t.items[i] = s.items[i]
    BY <2>1 DEF Follows
  <2> QED
    BY <1>1, <2>1, <2>2
<1> QED
  BY <1>1, <1>3, StepFollows

LEMMA SkipFollows ==
    ASSUME NEW v, NEW s, IsSound(v, s), NEW w, NEW t, IsSound(w, t),
           NEW n \in Nat, Follows(n, s, t), NEW count \in Nat
    PROVE  Follows(n, Skip(s, count), Skip(t, count))
<1>1. PICK x : x = Skip(s, count)
  OBVIOUS
<1>2. PICK y : y = Skip(t, count)
  OBVIOUS
<1>3. /\ x.read = s.read
      /\ \A i \in DOMAIN x.items : i \in Nat /\ i > 0 /\ count + i \in DOMAIN s.items
                                     /\ x.items[i] = s.items[count + i]
  BY <1>1, SkipIsSound
<1>4. /\ \A i \in DOMAIN y.items : y.items[i] = t.items[count + i]
      /\ \A i \in Nat : i > 0 /\ count + i \in DOMAIN t.items => i \in DOMAIN y.items
  <2>1. /\ \A i \in DOMAIN Skip(t, count).items : Skip(t, count).items[i] = t.items[count + i]
        /\ \A i \in Nat : i > 0 /\ count + i \in DOMAIN t.items => i \in DOMAIN Skip(t, count).items
    BY SkipIsSound
  <2> QED
    BY <1>2, <2>1
<1>5. ASSUME NEW i \in DOMAIN x.items, x.items[i].read <= n
      PROVE  i \in DOMAIN y.items /\ y.items[i] = x.items[i]
  <2>1. PICK j : j = count + i
    OBVIOUS
  <2>2. i \in Nat /\ i > 0 /\ j \in DOMAIN s.items /\ x.items[i] = s.items[j]
    BY <1>3, <2>1
  <2>3. j \in DOMAIN t.items /\ t.items[j] = s.items[j]
    BY <1>5, <2>2 DEF Follows
  <2> QED
    BY <1>4, <2>1, <2>2, <2>3
<1>6. Follows(n, x, y)
  BY <1>1, <1>2, <1>3, <1>5, StepFollows
<1> QED
  BY <1>1, <1>2, <1>6

LEMMA OrderFollows ==
    ASSUME NEW v, NEW s, IsSound(v, s), NEW w, NEW t, IsSound(w, t),
           NEW n \in Nat, Follows(n, s, t), NEW order
    PROVE  Follows(n, OrderByFunc(s, order), OrderByFunc(t, order))
<1>1. PICK x : x = OrderByFunc(s, order)
  OBVIOUS
<1>2. PICK y : y = OrderByFunc(t, order)
  OBVIOUS
<1>3. x.read = s.read /\ \A i \in DOMAIN x.items : x.items[i].read = s.read
  BY <1>1, OrderIsSound
<1>4. Follows(n, x, y)
  BY <1>1, <1>2, <1>3, StepFollows
<1> QED
  BY <1>1, <1>2, <1>4

LEMMA TakeFollows ==
    ASSUME NEW v, NEW s, IsSound(v, s), NEW w, NEW t, IsSound(w, t),
           NEW n \in Nat, Follows(n, s, t), NEW count \in Nat
    PROVE  Follows(n, Take(s, count), Take(t, count))
<1>1. CASE count = 0
  <2>1. Take(s, count) = Take(t, count)
    BY <1>1 DEF Take
  <2> QED
    BY <2>1, FollowsItself
<1>2. CASE count # 0
  <2>1. s \in QuerySequences /\ t \in QuerySequences
    BY DEF IsSound
  <2>2. PICK old \in Seq(QueryElements) : old = s.items
    BY <2>1, ItemsAre
  <2>3. PICK new \in Seq(QueryElements) : new = t.items
    BY <2>1, ItemsAre
  <2>4. PICK L \in Nat : L = Len(old) /\ DOMAIN old = 1 .. L
    OBVIOUS
  <2>5. PICK M \in Nat : M = Len(new) /\ DOMAIN new = 1 .. M
    OBVIOUS
  <2>6. \A i \in 1 .. L : old[i].read <= n => i \in 1 .. M /\ new[i] = old[i]
    BY <2>2, <2>3, <2>4, <2>5 DEF Follows
  <2>7. PICK x : x = Take(s, count)
    OBVIOUS
  <2>8. PICK y : y = Take(t, count)
    OBVIOUS
  <2>9. x = IF L < count THEN s ELSE Sequence(SubSeq(old, 1, count), FALSE, old[count].read)
    BY <1>2, <2>2, <2>4, <2>7 DEF Take
  <2>10. y = IF M < count THEN t ELSE Sequence(SubSeq(new, 1, count), FALSE, new[count].read)
    BY <1>2, <2>3, <2>5, <2>8 DEF Take
  <2>11. ASSUME NEW i \in 1 .. M, i <= count
         PROVE  i \in DOMAIN y.items /\ y.items[i] = new[i]
    <3>1. CASE M < count
      BY <2>3, <2>5, <2>10, <3>1
    <3>2. CASE ~(M < count)
      <4>1. count \in 0 .. Len(new) /\ i \in 1 .. count
        BY <2>5, <2>11, <3>2
      <4>2. y.items = SubSeq(new, 1, count)
        BY <2>10, <3>2 DEF Sequence
      <4> QED
        BY <4>1, <4>2, PrefixIs
    <3> QED
      BY <3>1, <3>2
  <2>12. CASE L < count
    <3>1. x = s
      BY <2>9, <2>12
    <3>2. CASE s.read <= n
      <4>1. t = s
        BY <3>2 DEF Follows
      <4> QED
        BY <4>1, FollowsItself
    <3>3. CASE ~(s.read <= n)
      <4>1. ASSUME NEW i \in DOMAIN x.items, x.items[i].read <= n
            PROVE  i \in DOMAIN y.items /\ y.items[i] = x.items[i]
        <5>1. i \in 1 .. L /\ old[i].read <= n /\ x.items[i] = old[i]
          BY <2>2, <2>4, <3>1, <4>1
        <5>2. i \in 1 .. M /\ new[i] = old[i] /\ i <= count
          BY <2>6, <2>12, <5>1
        <5> QED
          BY <2>11, <5>1, <5>2
      <4>2. Follows(n, x, y)
        BY <3>1, <3>3, <4>1, Zenon DEF Follows
      <4> QED
        BY <2>7, <2>8, <4>2
    <3> QED
      BY <3>2, <3>3
  <2>13. CASE ~(L < count)
    <3>1. count \in 1 .. L /\ count \in 0 .. Len(old) /\ count \in 1 .. count
      BY <1>2, <2>4, <2>13
    <3>2. x.items = SubSeq(old, 1, count) /\ x.read = old[count].read
      BY <2>9, <2>13 DEF Sequence
    <3>3. DOMAIN x.items = 1 .. count /\ \A i \in 1 .. count : i \in 1 .. L /\ x.items[i] = old[i]
      <4>1. \A i \in 1 .. count : i \in 1 .. L
        BY <3>1
      <4> QED
        BY <3>1, <3>2, <4>1, PrefixIs
    <3>4. ASSUME NEW i \in DOMAIN x.items, x.items[i].read <= n
          PROVE  i \in DOMAIN y.items /\ y.items[i] = x.items[i]
      <4>1. i \in 1 .. count /\ i \in 1 .. L /\ old[i].read <= n /\ x.items[i] = old[i]
        BY <3>3, <3>4
      <4>2. i \in 1 .. M /\ new[i] = old[i] /\ i <= count
        BY <2>6, <4>1
      <4> QED
        BY <2>11, <4>1, <4>2
    <3>5. ASSUME x.read <= n
          PROVE  y = x
      <4>1. \A i \in 1 .. L : old[i].read \in Nat
        BY <2>1, <2>2, <2>4, ItemsAre
      <4>2. \A i, j \in 1 .. L : i < j => old[i].read <= old[j].read
        BY <2>2, <2>4 DEF IsSound, InOrder
      <4>3. ASSUME NEW i \in 1 .. count
            PROVE  i \in 1 .. M /\ new[i] = old[i]
        <5>1. i \in 1 .. L /\ (i < count \/ i = count)
          BY <3>1
        <5>2. old[i].read \in Nat /\ old[count].read \in Nat /\ old[i].read <= old[count].read
          <6>1. old[i].read \in Nat /\ old[count].read \in Nat
            BY <3>1, <4>1, <5>1
          <6>2. CASE i < count
            BY <3>1, <4>2, <5>1, <6>1, <6>2
          <6>3. CASE i = count
            BY <6>1, <6>3
          <6> QED
            BY <5>1, <6>1, <6>2, <6>3
        <5>3. old[i].read <= n
          <6>1. old[count].read <= n
            BY <3>2, <3>5
          <6> QED
            BY <5>2, <6>1
        <5> QED
          BY <2>6, <5>1, <5>3
      <4>4. count \in 1 .. M /\ count \in 0 .. Len(new) /\ ~(M < count) /\ new[count] = old[count]
        BY <2>5, <3>1, <4>3
      <4>5. SubSeq(new, 1, count) = SubSeq(old, 1, count)
        <5>1. PICK a \in Seq(QueryElements) : a = SubSeq(new, 1, count)
          BY <4>4, PrefixIs
        <5>2. PICK b \in Seq(QueryElements) : b = SubSeq(old, 1, count)
          BY <3>1, PrefixIs
        <5>3. Len(a) = count /\ \A i \in 1 .. count : a[i] = new[i]
          BY <4>4, <5>1, PrefixIs
        <5>4. Len(b) = count /\ \A i \in 1 .. count : b[i] = old[i]
          BY <3>1, <5>2, PrefixIs
        <5>5. a = b
          BY <4>3, <5>3, <5>4, SeqEqual
        <5> QED
          BY <5>1, <5>2, <5>5
      <4> QED
        BY <2>9, <2>10, <2>13, <4>4, <4>5
    <3>6. Follows(n, x, y)
      BY <3>4, <3>5 DEF Follows
    <3> QED
      BY <2>7, <2>8, <3>6
  <2> QED
    BY <2>12, <2>13
<1> QED
  BY <1>1, <1>2

-----------------------------------------------------------------------------
QSteps == [kind : Steps, count : Nat]

LEMMA SteppedIsSound ==
    ASSUME NEW v, NEW s, IsSound(v, s), NEW step \in QSteps
    PROVE  IsSound(v, Stepped(s, step))
<1>1. step.kind \in Steps /\ step.count \in Nat
  BY DEF QSteps
<1>2. CASE step.kind = "Where"
  <2>1. Stepped(s, step) = Where(s)
    BY <1>2 DEF Stepped
  <2> QED
    BY <2>1, WhereIsSound
<1>3. CASE step.kind = "Select"
  <2>1. Stepped(s, step) = Select(s)
    BY <1>3 DEF Stepped
  <2> QED
    BY <2>1, SelectIsSound
<1>4. CASE step.kind = "OrderBy"
  <2>1. Stepped(s, step) = OrderByFunc(s, "ascending")
    BY <1>4 DEF Stepped, OrderBy
  <2> QED
    BY <2>1, OrderIsSound
<1>5. CASE step.kind = "OrderByDescending"
  <2>1. Stepped(s, step) = OrderByFunc(s, "descending")
    BY <1>5 DEF Stepped, OrderByDescending
  <2> QED
    BY <2>1, OrderIsSound
<1>6. CASE step.kind = "Skip"
  <2>1. Stepped(s, step) = Skip(s, step.count)
    BY <1>6 DEF Stepped
  <2> QED
    BY <1>1, <2>1, SkipIsSound
<1>7. CASE step.kind = "Take"
  <2>1. Stepped(s, step) = Take(s, step.count)
    BY <1>7 DEF Stepped
  <2> QED
    BY <1>1, <2>1, TakeIsSound
<1> QED
  BY <1>1, <1>2, <1>3, <1>4, <1>5, <1>6, <1>7 DEF Steps

LEMMA SteppedFollows ==
    ASSUME NEW v, NEW s, IsSound(v, s), NEW w, NEW t, IsSound(w, t),
           NEW n \in Nat, Follows(n, s, t), NEW step \in QSteps
    PROVE  Follows(n, Stepped(s, step), Stepped(t, step))
<1>1. step.kind \in Steps /\ step.count \in Nat
  BY DEF QSteps
<1>2. CASE step.kind = "Where"
  <2>1. \A x : Stepped(x, step) = Where(x)
    BY <1>2 DEF Stepped
  <2> QED
    BY <2>1, WhereFollows
<1>3. CASE step.kind = "Select"
  <2>1. \A x : Stepped(x, step) = Select(x)
    BY <1>3 DEF Stepped
  <2> QED
    BY <2>1, SelectFollows
<1>4. CASE step.kind = "OrderBy"
  <2>1. \A x : Stepped(x, step) = OrderByFunc(x, "ascending")
    BY <1>4 DEF Stepped, OrderBy
  <2> QED
    BY <2>1, OrderFollows
<1>5. CASE step.kind = "OrderByDescending"
  <2>1. \A x : Stepped(x, step) = OrderByFunc(x, "descending")
    BY <1>5 DEF Stepped, OrderByDescending
  <2> QED
    BY <2>1, OrderFollows
<1>6. CASE step.kind = "Skip"
  <2>1. \A x : Stepped(x, step) = Skip(x, step.count)
    BY <1>6 DEF Stepped
  <2> QED
    BY <1>1, <2>1, SkipFollows
<1>7. CASE step.kind = "Take"
  <2>1. \A x : Stepped(x, step) = Take(x, step.count)
    BY <1>7 DEF Stepped
  <2> QED
    BY <1>1, <2>1, TakeFollows
<1> QED
  BY <1>1, <1>2, <1>3, <1>4, <1>5, <1>6, <1>7 DEF Steps

\* What a query has after its first steps.
Runs(v, steps, r) ==
    /\ r[0] = SequenceOf(v)
    /\ \A n \in 1 .. Len(steps) : r[n] = Stepped(r[n - 1], steps[n])
    /\ Folded(Stepped, SequenceOf(v), steps) = r[Len(steps)]

LEMMA StepsRun ==
    ASSUME NEW v \in ViewSeqs, NEW steps \in Seq(QSteps)
    PROVE  \E r : Runs(v, steps, r)
<1> DEFINE N == Len(steps)
           V == {s \in QuerySequences : IsSound(v, s)}
           a == SequenceOf(v)
           E(f) == [n \in 0 .. N |-> IF n = 0 THEN a ELSE Stepped(f[n - 1], steps[n])]
           G == [n \in 1 .. N |-> [x \in V |-> Stepped(x, steps[n])]]
<1>1. N \in Nat /\ \A n \in 1 .. N : steps[n] \in QSteps
  OBVIOUS
<1>2. Folded(Stepped, a, steps) = (CHOOSE f : f = E(f))[N]
  BY DEF Folded
<1>3. a \in V
  BY SequenceOfIsSound DEF IsSound
<1>4. \A n \in 1 .. N, x \in V : Stepped(x, steps[n]) \in V
  BY <1>1, SteppedIsSound DEF IsSound
<1>5. G \in [1 .. N -> [V -> V]]
  BY <1>4
<1> HIDE DEF V, N, a
<1>6. PICK f : Loop(V, a, N, G, f)
  <2> HIDE DEF G
  <2> QED
    BY <1>1, <1>3, <1>5, LoopExists
<1>7. f = E(f)
  <2>1. f \in [0 .. N -> V] /\ f[0] = a /\ \A n \in 1 .. N : f[n] = G[n][f[n - 1]]
    BY <1>6 DEF Loop
  <2>2. \A n \in 1 .. N : n - 1 \in 0 .. N
    BY <1>1
  <2>3. \A n \in 1 .. N : f[n - 1] \in V
    <3> HIDE DEF G
    <3> QED
      BY <2>1, <2>2
  <2>4. \A n \in 1 .. N : f[n] = Stepped(f[n - 1], steps[n])
    BY <2>1, <2>3
  <2>5. \A n \in 0 .. N : n = 0 \/ (n # 0 /\ n \in 1 .. N)
    BY <1>1
  <2>6. \A n \in 0 .. N : f[n] = IF n = 0 THEN a ELSE Stepped(f[n - 1], steps[n])
    <3> HIDE DEF G
    <3> QED
      BY <2>1, <2>4, <2>5, Zenon
  <2> HIDE DEF G
  <2> QED
    BY <2>1, <2>6
<1>8. PICK r : r = E(r) /\ Folded(Stepped, a, steps) = r[N]
  <2> HIDE DEF E
  <2> QED
    BY <1>2, <1>7
<1>9. r[0] = a /\ \A n \in 1 .. N : r[n] = Stepped(r[n - 1], steps[n])
  <2>1. 0 \in 0 .. N /\ \A n \in 1 .. N : n \in 0 .. N /\ n # 0
    BY <1>1
  <2> QED
    BY <1>8, <2>1
<1> QED
  BY <1>8, <1>9 DEF Runs, N, a

\* After every step, a query on a view is sound, and follows the one on another
\* view as long as that has read no more than what the two views agree on.
LEMMA QueriesFollow ==
    ASSUME NEW v \in ViewSeqs, NEW w \in ViewSeqs, NEW steps \in Seq(QSteps)
    PROVE  LET s == Folded(Stepped, SequenceOf(v), steps)
               t == Folded(Stepped, SequenceOf(w), steps)
           IN  /\ IsSound(v, s) /\ IsSound(w, t)
               /\ \A m \in Nat : Agree(v, w, m) => Follows(m, s, t)
<1>1. PICK N \in Nat : N = Len(steps)
  OBVIOUS
<1>2. PICK r : Runs(v, steps, r)
  BY StepsRun
<1>3. PICK q : Runs(w, steps, q)
  BY StepsRun
<1>4. /\ r[0] = SequenceOf(v) /\ q[0] = SequenceOf(w)
      /\ \A n \in 1 .. N : r[n] = Stepped(r[n - 1], steps[n]) /\ q[n] = Stepped(q[n - 1], steps[n])
      /\ Folded(Stepped, SequenceOf(v), steps) = r[N]
      /\ Folded(Stepped, SequenceOf(w), steps) = q[N]
  BY <1>1, <1>2, <1>3 DEF Runs
<1> DEFINE Good(n) == /\ IsSound(v, r[n]) /\ IsSound(w, q[n])
                      /\ \A m \in Nat : Agree(v, w, m) => Follows(m, r[n], q[n])
           T == {n \in Nat : n <= N => Good(n)}
<1>5. 0 \in T
  BY <1>4, SequenceOfIsSound, ViewsFollow
<1>6. ASSUME NEW n \in Nat, n \in T
      PROVE  n + 1 \in T
  <2> SUFFICES ASSUME n + 1 <= N
               PROVE  Good(n + 1)
    OBVIOUS
  <2>1. n + 1 \in 1 .. N /\ (n + 1) - 1 = n /\ n <= N
    BY <1>1
  <2>2. PICK step : step = steps[n + 1]
    OBVIOUS
  <2>3. step \in QSteps
    BY <1>1, <2>1, <2>2
  <2>4. PICK s : s = r[n]
    OBVIOUS
  <2>5. PICK t : t = q[n]
    OBVIOUS
  <2>6. IsSound(v, s) /\ IsSound(w, t) /\ \A m \in Nat : Agree(v, w, m) => Follows(m, s, t)
    BY <1>6, <2>1, <2>4, <2>5
  <2>7. r[n + 1] = Stepped(s, step) /\ q[n + 1] = Stepped(t, step)
    BY <1>4, <2>1, <2>2, <2>4, <2>5
  <2>8. IsSound(v, Stepped(s, step)) /\ IsSound(w, Stepped(t, step))
    BY <2>3, <2>6, SteppedIsSound
  <2>9. \A m \in Nat : Agree(v, w, m) => Follows(m, Stepped(s, step), Stepped(t, step))
    BY <2>3, <2>6, SteppedFollows
  <2> QED
    BY <2>7, <2>8, <2>9
<1>7. \A n \in Nat : n \in T
  <2> HIDE DEF T
  <2> QED
    BY <1>5, <1>6, Induct
<1>8. Good(N)
  BY <1>7
<1> QED
  BY <1>4, <1>8, Zenon

-----------------------------------------------------------------------------
Ended(s, end) ==
    CASE end = "Collect" -> Collect(s)
      [] end = "Count" -> Count(s)
      [] end = "First" -> First(s)
      [] end = "Single" -> Single(s)
      [] end = "Any" -> AnyMatch(s)

EndTells(v, s, t, x, y) ==
    /\ x.read \in Nat
    /\ Follows(x.read, s, t) => Told(y) = Told(x)
    /\ Failure \in x.error <=> Meets(v, x.read)
    /\ x.error # {} => ToSet(x.items) \subseteq {0}

LEMMA ResultIs ==
    ASSUME NEW error, NEW items, NEW read
    PROVE  LET x == Result(error, items, read)
           IN  x.error = error /\ x.items = items /\ x.read = read
BY DEF Result

LEMMA NothingIs == ToSet(<<>>) \subseteq {0} /\ ToSet(<<0>>) \subseteq {0}
BY DEF ToSet

\* A result that needs all of the sequence.
LEMMA EndsAtTheEnd ==
    ASSUME NEW v, NEW s, IsSound(v, s), NEW t, NEW x, NEW y,
           x.read = s.read, t = s => y = x, x.error # {} => ToSet(x.items) \subseteq {0},
           Failure \in x.error <=> s.fails
    PROVE  EndTells(v, s, t, x, y)
<1>1. s \in QuerySequences /\ FailsInTime(v, s)
  BY DEF IsSound
<1>2. s.read \in Nat /\ (s.fails <=> Meets(v, s.read))
  BY <1>1, ItemsAre, Zenon DEF FailsInTime
<1>3. Follows(s.read, s, t) => y = x
  <2>1. s.read <= s.read
    BY <1>2
  <2> QED
    BY <2>1 DEF Follows
<1>4. x.read \in Nat /\ (Failure \in x.error <=> Meets(v, x.read))
  BY <1>2, Zenon
<1>5. Follows(x.read, s, t) => Told(y) = Told(x)
  BY <1>3
<1> QED
  BY <1>4, <1>5, Zenon DEF EndTells

\* A result that is known once an item comes out.
LEMMA EndsAtAnItem ==
    ASSUME NEW v, NEW s, IsSound(v, s), NEW t, NEW x, NEW y, NEW i \in DOMAIN s.items,
           x.read = s.items[i].read,
           i \in DOMAIN t.items /\ t.items[i] = s.items[i] => Told(y) = Told(x),
           x.error # {} => ToSet(x.items) \subseteq {0}, Failure \notin x.error
    PROVE  EndTells(v, s, t, x, y)
<1>1. s \in QuerySequences /\ FailsInTime(v, s)
  BY DEF IsSound
<1>2. x.read \in Nat /\ ~Meets(v, x.read)
  BY <1>1, ItemsAre, Zenon DEF FailsInTime
<1>3. Follows(x.read, s, t) => Told(y) = Told(x)
  <2>1. s.items[i].read <= x.read
    BY <1>2
  <2> QED
    BY <2>1 DEF Follows
<1> QED
  BY <1>2, <1>3, Zenon DEF EndTells

LEMMA FailuresAre ==
    ASSUME NEW s
    PROVE  /\ Failure \in FailureOf(s) <=> s.fails
           /\ FailureOf(s) # {} => s.fails
           /\ s.fails => ValuesOf(s) = <<>>
BY DEF FailureOf, ValuesOf

LEMMA CollectTells ==
    ASSUME NEW v, NEW s, IsSound(v, s), NEW t
    PROVE  EndTells(v, s, t, Collect(s), Collect(t))
<1>1. PICK x : x = Collect(s)
  OBVIOUS
<1>2. x.error = FailureOf(s) /\ x.items = ValuesOf(s) /\ x.read = s.read
  BY <1>1 DEF Collect, Result
<1>3. x.error # {} => ToSet(x.items) \subseteq {0}
  BY <1>2, FailuresAre, NothingIs, Zenon
<1>4. Failure \in x.error <=> s.fails
  BY <1>2, FailuresAre, Zenon
<1> QED
  BY <1>1, <1>2, <1>3, <1>4, EndsAtTheEnd

LEMMA CountTells ==
    ASSUME NEW v, NEW s, IsSound(v, s), NEW t
    PROVE  EndTells(v, s, t, Count(s), Count(t))
<1>1. PICK x : x = Count(s)
  OBVIOUS
<1>2. x.error = FailureOf(s) /\ x.items = <<Len(ValuesOf(s))>> /\ x.read = s.read
  BY <1>1 DEF Count, Result
<1>3. x.error # {} => ToSet(x.items) \subseteq {0}
  <2>1. x.error # {} => x.items = <<0>>
    BY <1>2, FailuresAre
  <2> QED
    BY <2>1, NothingIs, Zenon
<1>4. Failure \in x.error <=> s.fails
  BY <1>2, FailuresAre, Zenon
<1> QED
  BY <1>1, <1>2, <1>3, <1>4, EndsAtTheEnd

LEMMA FirstTells ==
    ASSUME NEW v, NEW s, IsSound(v, s), NEW w, NEW t, IsSound(w, t)
    PROVE  EndTells(v, s, t, First(s), First(t))
<1>1. PICK x : x = First(s)
  OBVIOUS
<1>2. PICK y : y = First(t)
  OBVIOUS
<1>3. CASE s.items # <<>>
  <2>1. 1 \in DOMAIN s.items
    <3>1. s.items \in Seq(QueryElements)
      BY ItemsAre DEF IsSound
    <3> QED
      BY <1>3, <3>1
  <2>2. x = Result({}, <<s.items[1].x>>, s.items[1].read)
    BY <1>1, <1>3 DEF First
  <2>3. x.error = {} /\ x.items = <<s.items[1].x>> /\ x.read = s.items[1].read
    BY <2>2 DEF Result
  <2>4. ASSUME 1 \in DOMAIN t.items, t.items[1] = s.items[1]
        PROVE  y = x
    <3>1. t.items # <<>>
      BY <2>4
    <3>2. y = Result({}, <<t.items[1].x>>, t.items[1].read)
      BY <1>2, <3>1 DEF First
    <3> QED
      BY <2>2, <2>4, <3>2
  <2>5. EndTells(v, s, t, x, y)
    BY <2>1, <2>3, <2>4, EndsAtAnItem
  <2> QED
    BY <1>1, <1>2, <2>5
<1>4. CASE s.items = <<>>
  <2>1. x = Result(FailureOf(s), <<>>, s.read)
    BY <1>1, <1>4 DEF First
  <2>2. x.error = FailureOf(s) /\ x.items = <<>> /\ x.read = s.read
    BY <2>1 DEF Result
  <2>3. x.error # {} => ToSet(x.items) \subseteq {0}
    BY <2>2, NothingIs, Zenon
  <2>4. Failure \in x.error <=> s.fails
    BY <2>2, FailuresAre, Zenon
  <2> QED
    BY <1>1, <2>2, <2>3, <2>4, EndsAtTheEnd
<1> QED
  BY <1>3, <1>4

LEMMA SingleTells ==
    ASSUME NEW v, NEW s, IsSound(v, s), NEW w, NEW t, IsSound(w, t)
    PROVE  EndTells(v, s, t, Single(s), Single(t))
<1>1. PICK x : x = Single(s)
  OBVIOUS
<1>2. PICK y : y = Single(t)
  OBVIOUS
<1>3. s \in QuerySequences /\ t \in QuerySequences
  BY DEF IsSound
<1>4. CASE Len(s.items) > 1
  <2>1. 2 \in DOMAIN s.items
    <3>1. Len(s.items) \in Nat /\ DOMAIN s.items = 1 .. Len(s.items)
      BY <1>3, ItemsAre
    <3> QED
      BY <1>4, <3>1
  <2>2. x = Result({ErrTooManyItems}, <<>>, s.items[2].read)
    BY <1>1, <1>4 DEF Single
  <2>3. x.error = {ErrTooManyItems} /\ x.items = <<>> /\ x.read = s.items[2].read
    BY <2>2 DEF Result
  <2>4. ASSUME 2 \in DOMAIN t.items, t.items[2] = s.items[2]
        PROVE  y = x
    <3>1. Len(t.items) > 1
      <4>1. Len(t.items) \in Nat /\ DOMAIN t.items = 1 .. Len(t.items)
        BY <1>3, ItemsAre
      <4> QED
        BY <2>4, <4>1
    <3>2. y = Result({ErrTooManyItems}, <<>>, t.items[2].read)
      BY <1>2, <3>1 DEF Single
    <3> QED
      BY <2>2, <2>4, <3>2
  <2>5. x.error # {} => ToSet(x.items) \subseteq {0}
    BY <2>3, NothingIs, Zenon
  <2>6. Failure \notin x.error
    BY <2>3, QueryAssumption
  <2>7. EndTells(v, s, t, x, y)
    BY <2>1, <2>3, <2>4, <2>5, <2>6, EndsAtAnItem
  <2> QED
    BY <1>1, <1>2, <2>7
<1>5. CASE ~(Len(s.items) > 1)
  <2>1. PICK e : e = IF s.fails THEN {Failure} ELSE IF s.items = <<>> THEN {ErrNoItems} ELSE {}
    OBVIOUS
  <2>2. x.read = s.read /\ x.error = e /\ (s.fails => x.items = <<>>)
          /\ (s.items = <<>> => x.items = <<>>)
    <3>1. CASE s.fails
      BY <1>1, <1>5, <2>1, <3>1 DEF Single, Result
    <3>2. CASE ~s.fails
      <4>1. x = Result(e, ValuesOf(s), s.read)
        BY <1>1, <1>5, <2>1, <3>2 DEF Single
      <4>2. s.items = <<>> => ValuesOf(s) = <<>>
        <5>1. ASSUME s.items = <<>>
              PROVE  ValuesOf(s) = <<>>
          <6>1. ValuesOf(s) = [i \in DOMAIN s.items |-> s.items[i].x]
            BY <3>2 DEF ValuesOf
          <6>2. ValuesOf(s) \in [1 .. 0 -> Nat]
            BY <5>1, <6>1
          <6>3. ValuesOf(s) \in Seq(Nat) /\ Len(ValuesOf(s)) = 0
            BY <6>2
          <6> QED
            BY <6>3
        <5> QED
          BY <5>1
      <4> QED
        BY <3>2, <4>1, <4>2 DEF Result
    <3> QED
      BY <3>1, <3>2
  <2>3. x.error # {} => x.items = <<>>
    BY <2>1, <2>2
  <2>4. Failure \in x.error <=> s.fails
    BY <2>1, <2>2, QueryAssumption
  <2>5. x.error # {} => ToSet(x.items) \subseteq {0}
    BY <2>3, NothingIs, Zenon
  <2> QED
    BY <1>1, <2>2, <2>4, <2>5, EndsAtTheEnd
<1> QED
  BY <1>4, <1>5

LEMMA AnyTells ==
    ASSUME NEW v, NEW s, IsSound(v, s), NEW w, NEW t, IsSound(w, t)
    PROVE  EndTells(v, s, t, AnyMatch(s), AnyMatch(t))
<1>1. PICK x : x = AnyMatch(s)
  OBVIOUS
<1>2. PICK y : y = AnyMatch(t)
  OBVIOUS
<1>3. CASE KeptOf(s) # {}
  <2>1. PICK i : i = Min(KeptOf(s))
    OBVIOUS
  <2>2. i \in KeptOf(s)
    <3>1. DOMAIN s.items = 1 .. Len(s.items)
      BY ItemsAre DEF IsSound
    <3>2. KeptOf(s) \in SUBSET Nat
      BY <3>1 DEF KeptOf
    <3> QED
      BY <1>3, <2>1, <3>2, MinIs
  <2>3. i \in DOMAIN s.items /\ keep(s.items[i].x)
    BY <2>2 DEF KeptOf
  <2>4. x = Result({}, <<1>>, s.items[i].read)
    BY <1>1, <1>3, <2>1 DEF AnyMatch, KeptOf
  <2>5. x.error = {} /\ x.items = <<1>> /\ x.read = s.items[i].read
    BY <2>4 DEF Result
  <2>6. ASSUME i \in DOMAIN t.items, t.items[i] = s.items[i]
        PROVE  Told(y) = Told(x)
    <3>1. i \in KeptOf(t)
      BY <2>3, <2>6 DEF KeptOf
    <3>2. y = Result({}, <<1>>, t.items[Min(KeptOf(t))].read)
      BY <1>2, <3>1 DEF AnyMatch, KeptOf
    <3>3. y.error = {} /\ y.items = <<1>>
      BY <3>2 DEF Result
    <3> QED
      BY <2>5, <3>3 DEF Told
  <2>7. EndTells(v, s, t, x, y)
    BY <2>3, <2>5, <2>6, EndsAtAnItem
  <2> QED
    BY <1>1, <1>2, <2>7
<1>4. CASE KeptOf(s) = {}
  <2>1. x = Result(FailureOf(s), <<>>, s.read)
    BY <1>1, <1>4 DEF AnyMatch, KeptOf
  <2>2. x.error = FailureOf(s) /\ x.items = <<>> /\ x.read = s.read
    BY <2>1 DEF Result
  <2>3. x.error # {} => ToSet(x.items) \subseteq {0}
    BY <2>2, NothingIs, Zenon
  <2>4. Failure \in x.error <=> s.fails
    BY <2>2, FailuresAre, Zenon
  <2> QED
    BY <1>1, <2>2, <2>3, <2>4, EndsAtTheEnd
<1> QED
  BY <1>3, <1>4

LEMMA EndedTells ==
    ASSUME NEW v, NEW s, IsSound(v, s), NEW w, NEW t, IsSound(w, t), NEW end \in Ends
    PROVE  EndTells(v, s, t, Ended(s, end), Ended(t, end))
<1>1. CASE end = "Collect"
  BY <1>1, CollectTells DEF Ended
<1>2. CASE end = "Count"
  BY <1>2, CountTells DEF Ended
<1>3. CASE end = "First"
  BY <1>3, FirstTells DEF Ended
<1>4. CASE end = "Single"
  BY <1>4, SingleTells DEF Ended
<1>5. CASE end = "Any"
  BY <1>5, AnyTells DEF Ended
<1> QED
  BY <1>1, <1>2, <1>3, <1>4, <1>5 DEF Ends

-----------------------------------------------------------------------------
\* Every query, of any steps on any view (query.go): its result depends only on
\* what it read of the view, it fails with the error of the view exactly if it
\* read that, and then returns nothing else.
THEOREM QueriesTellWhatTheyRead ==
    ASSUME NEW views \in SUBSET ViewSeqs, NEW view \in ViewSeqs,
           NEW steps \in Seq(QSteps), NEW end \in Ends
    PROVE  TellsWhatItRead(views, view, steps, end, RunQuery(view, steps, end))
<1> DEFINE Taken(v) == Folded(Stepped, SequenceOf(v), steps)
<1>1. \A v : RunQuery(v, steps, end) = Ended(Taken(v), end)
  BY DEF RunQuery, Ended
<1>2. \A w \in ViewSeqs :
         /\ IsSound(view, Taken(view)) /\ IsSound(w, Taken(w))
         /\ \A m \in Nat : Agree(view, w, m) => Follows(m, Taken(view), Taken(w))
  BY QueriesFollow
<1> HIDE DEF Taken
<1>3. PICK x : x = RunQuery(view, steps, end)
  OBVIOUS
<1>4. \A w \in ViewSeqs : EndTells(view, Taken(view), Taken(w), x, RunQuery(w, steps, end))
  BY <1>1, <1>2, <1>3, EndedTells
<1>5. ASSUME NEW w \in views, Agree(view, w, x.read)
      PROVE  Told(RunQuery(w, steps, end)) = Told(x)
  <2>1. /\ x.read \in Nat
        /\ Follows(x.read, Taken(view), Taken(w)) => Told(RunQuery(w, steps, end)) = Told(x)
    BY <1>4 DEF EndTells
  <2> QED
    BY <1>2, <1>5, <2>1
<1>6. /\ Failure \in x.error <=> \E i \in 1 .. x.read : At(view, i) = Failure
      /\ x.error # {} => ToSet(x.items) \subseteq {0}
  BY <1>4, Zenon DEF EndTells, Meets
<1> QED
  BY <1>3, <1>5, <1>6, Zenon DEF TellsWhatItRead

LEMMA ViewsAreViews == Views \subseteq ViewSeqs
<1>1. ASSUME NEW n \in Nat, NEW v \in SeqsUpTo(Items, n)
      PROVE  v \in ViewSeqs /\ Append(v, Failure) \in ViewSeqs
  <2>1. v \in Seq(Items)
    BY <1>1, SeqsUpToAre
  <2>2. v \in Seq(Items \cup {Failure}) /\ \A i \in DOMAIN v : v[i] # Failure
    BY <2>1, QueryAssumption
  <2>3. PICK f : f = Append(v, Failure)
    OBVIOUS
  <2>4. /\ f \in Seq(Items \cup {Failure}) /\ Len(f) = Len(v) + 1
        /\ \A i \in 1 .. Len(v) : f[i] = v[i]
    BY <2>2, <2>3
  <2>5. ASSUME NEW i \in DOMAIN f, f[i] = Failure
        PROVE  i = Len(f)
    <3>1. Len(v) \in Nat /\ DOMAIN v = 1 .. Len(v) /\ DOMAIN f = 1 .. Len(v) + 1
      BY <2>2, <2>4
    <3>2. i \in 1 .. Len(v) \/ i = Len(v) + 1
      BY <3>1
    <3> QED
      BY <2>2, <2>4, <2>5, <3>1, <3>2
  <2> QED
    BY <2>2, <2>3, <2>4, <2>5 DEF ViewSeqs
<1> QED
  BY <1>1 DEF Views

LEMMA QueryQuestionsAre ==
    ASSUME NEW q \in QueryQuestions
    PROVE  q.view \in ViewSeqs /\ q.steps \in Seq(QSteps) /\ q.end \in Ends
<1>1. q.view \in Views /\ q.steps \in SeqsUpTo(QuerySteps, 2) /\ q.end \in Ends
  BY DEF QueryQuestions
<1>2. q.steps \in Seq(QuerySteps)
  BY <1>1, SeqsUpToAre
<1>3. QuerySteps \subseteq QSteps
  BY DEF QuerySteps, QSteps, Steps
<1> QED
  BY <1>1, <1>2, <1>3, ViewsAreViews

\* The answers of a query in every behaviour: each tells what was read of the
\* view (QueriesTellWhatTheyRead; query.go).
THEOREM QueriesAnswered == Spec => []QueryTellsWhatItRead
<1>1. AnswersInv => QueryTellsWhatItRead
  <2> SUFFICES ASSUME AnswersInv, IsAnswered("query")
               PROVE  TellsWhatItRead(Views, question.view, question.steps, question.end, answer)
    BY DEF QueryTellsWhatItRead
  <2>1. question \in AllQuestions /\ question.about = "query" /\ answer = AnswerTo(question)
    BY DEF AnswersInv, IsAnswered
  <2>2. question \in QueryQuestions
    BY <2>1 DEF AllQuestions, ReadQuestions, SchemeQuestions
  <2>3. answer = RunQuery(question.view, question.steps, question.end)
    BY <2>1 DEF AnswerTo
  <2>4. /\ question.view \in ViewSeqs /\ question.steps \in Seq(QSteps)
        /\ question.end \in Ends
    BY <2>2, QueryQuestionsAre
  <2> QED
    BY <2>3, <2>4, ViewsAreViews, QueriesTellWhatTheyRead
<1> QED
  BY <1>1, AnswersKept, PTL DEF Spec
=============================================================================
