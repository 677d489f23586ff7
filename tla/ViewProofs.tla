------------------------------ MODULE ViewProofs ------------------------------
(***************************************************************************)
(* What a view in memory keeps true, for all sets of keys and values, and  *)
(* whatever its handlers call, however often.                              *)
(***************************************************************************)
EXTENDS ViewRun, FiniteSetTheorems, TLAPS

-----------------------------------------------------------------------------
(***************************************************************************)
(* The numbers in a finite set, by how many are not greater.               *)
(***************************************************************************)
Upto(P, p) == {q \in P : q <= p}

LEMMA RanksGrow ==
    ASSUME NEW P \in SUBSET Nat, IsFiniteSet(P), NEW p \in P, NEW q \in P, p < q
    PROVE  Cardinality(Upto(P, p)) < Cardinality(Upto(P, q))
<1>1. Upto(P, q) \in SUBSET P /\ Upto(P, p) \in SUBSET Upto(P, q)
  <2>1. \A x \in P : x \in Nat /\ (x <= p => x <= q)
    OBVIOUS
  <2> QED
    BY <2>1 DEF Upto
<1>2. q \in Upto(P, q) /\ q \notin Upto(P, p)
  BY DEF Upto
<1>3. IsFiniteSet(Upto(P, q))
  BY <1>1, FS_Subset
<1>4. /\ IsFiniteSet(Upto(P, p))
      /\ Cardinality(Upto(P, p)) <= Cardinality(Upto(P, q))
      /\ Cardinality(Upto(P, q)) = Cardinality(Upto(P, p)) => Upto(P, q) = Upto(P, p)
  BY <1>1, <1>3, FS_Subset
<1>5. Cardinality(Upto(P, p)) \in Nat /\ Cardinality(Upto(P, q)) \in Nat
  BY <1>3, <1>4, FS_CardinalityType
<1> QED
  BY <1>2, <1>4, <1>5

LEMMA RankBounds ==
    ASSUME NEW P \in SUBSET Nat, IsFiniteSet(P), NEW p \in P
    PROVE  Cardinality(P) \in Nat /\ Cardinality(Upto(P, p)) \in 1 .. Cardinality(P)
<1>1. Upto(P, p) \in SUBSET P /\ p \in Upto(P, p)
  BY DEF Upto
<1>2. IsFiniteSet(Upto(P, p)) /\ Cardinality(Upto(P, p)) <= Cardinality(P)
  BY <1>1, FS_Subset
<1>3. Cardinality(Upto(P, p)) \in Nat /\ Cardinality(P) \in Nat
  BY <1>2, FS_CardinalityType
<1>4. Cardinality(Upto(P, p)) # 0
  BY <1>1, <1>2, FS_EmptySet
<1> QED
  BY <1>2, <1>3, <1>4

\* Every rank is that of just one number.
LEMMA RanksAreUnique ==
    ASSUME NEW P \in SUBSET Nat, IsFiniteSet(P), NEW p \in P, NEW q \in P,
           Cardinality(Upto(P, p)) = Cardinality(Upto(P, q))
    PROVE  p = q
<1>1. p \in Nat /\ q \in Nat
  OBVIOUS
<1>2. Cardinality(Upto(P, p)) \in Nat /\ Cardinality(Upto(P, q)) \in Nat
  BY RankBounds
<1>3. ~(p < q) /\ ~(q < p)
  BY <1>2, RanksGrow
<1> QED
  BY <1>1, <1>3

LEMMA RanksAreTaken ==
    ASSUME NEW P \in SUBSET Nat, IsFiniteSet(P), NEW n \in 1 .. Cardinality(P)
    PROVE  \E p \in P : Cardinality(Upto(P, p)) = n
<1> DEFINE N == Cardinality(P)
           f == [p \in P |-> Cardinality(Upto(P, p))]
<1>1. N \in Nat
  BY FS_CardinalityType
<1>2. f \in Injection(P, 1 .. N)
  <2>1. f \in [P -> 1 .. N]
    BY RankBounds
  <2>2. \A p, q \in P : f[p] = f[q] => p = q
    BY RanksAreUnique
  <2> QED
    BY <2>1, <2>2 DEF Injection, IsInjective
<1>3. IsFiniteSet(1 .. N) /\ Cardinality(1 .. N) = N
  BY <1>1, FS_Interval
<1>4. f \in Surjection(P, 1 .. N)
  BY <1>2, <1>3, FS_Injection
<1>5. \E p \in P : f[p] = n
  BY <1>4 DEF Surjection
<1> QED
  BY <1>5

LEMMA NthIs ==
    ASSUME NEW P \in SUBSET Nat, IsFiniteSet(P), NEW n \in 1 .. Cardinality(P)
    PROVE  Nth(P, n) \in P /\ Cardinality(Upto(P, Nth(P, n))) = n
<1>1. \E p \in P : Cardinality({q \in P : q <= p}) = n
  BY RanksAreTaken DEF Upto
<1>2. Nth(P, n) \in P /\ Cardinality({q \in P : q <= Nth(P, n)}) = n
  BY <1>1 DEF Nth
<1> QED
  BY <1>2 DEF Upto

LEMMA NthOfRank ==
    ASSUME NEW P \in SUBSET Nat, IsFiniteSet(P), NEW p \in P
    PROVE  Nth(P, Cardinality(Upto(P, p))) = p
<1>1. PICK n : n = Cardinality(Upto(P, p))
  OBVIOUS
<1>2. n \in 1 .. Cardinality(P)
  BY <1>1, RankBounds
<1>3. Nth(P, n) \in P /\ Cardinality(Upto(P, Nth(P, n))) = n
  BY <1>2, NthIs
<1>4. Nth(P, n) = p
  BY <1>1, <1>3, RanksAreUnique
<1> QED
  BY <1>1, <1>4

LEMMA NthGrows ==
    ASSUME NEW P \in SUBSET Nat, IsFiniteSet(P),
           NEW m \in 1 .. Cardinality(P), NEW n \in 1 .. Cardinality(P), m < n
    PROVE  Nth(P, m) < Nth(P, n)
<1> DEFINE p == Nth(P, m)
           q == Nth(P, n)
<1>1. p \in P /\ q \in P /\ Cardinality(Upto(P, p)) = m /\ Cardinality(Upto(P, q)) = n
  BY NthIs
<1> HIDE DEF p, q
<1>2. m \in Nat /\ n \in Nat /\ p \in Nat /\ q \in Nat
  <2>1. Cardinality(P) \in Nat
    BY FS_CardinalityType
  <2> QED
    BY <1>1, <2>1
<1>3. p # q /\ ~(q < p)
  BY <1>1, <1>2, RanksGrow
<1> QED
  BY <1>2, <1>3 DEF p, q

\* A function that grows keeps the ranks.
LEMMA GrowingKeepsRanks ==
    ASSUME NEW P \in SUBSET Nat, IsFiniteSet(P), NEW Q \in SUBSET Nat, NEW g \in [P -> Q],
           \A q \in Q : \E p \in P : g[p] = q,
           \A p, q \in P : p < q => g[p] < g[q]
    PROVE  /\ IsFiniteSet(Q) /\ Cardinality(Q) = Cardinality(P)
           /\ \A n \in 1 .. Cardinality(P) : Nth(Q, n) = g[Nth(P, n)]
<1>1. \A p, q \in P : /\ p \in Nat /\ q \in Nat /\ g[p] \in Nat /\ g[q] \in Nat
                      /\ g[p] = g[q] => p = q
                      /\ g[p] <= g[q] <=> p <= q
  <2> SUFFICES ASSUME NEW p \in P, NEW q \in P
               PROVE  /\ p \in Nat /\ q \in Nat /\ g[p] \in Nat /\ g[q] \in Nat
                      /\ g[p] = g[q] => p = q
                      /\ g[p] <= g[q] <=> p <= q
    OBVIOUS
  <2>1. p \in Nat /\ q \in Nat /\ g[p] \in Nat /\ g[q] \in Nat
    OBVIOUS
  <2>2. (p < q => g[p] < g[q]) /\ (q < p => g[q] < g[p]) /\ (p = q => g[p] = g[q])
    OBVIOUS
  <2> QED
    BY <2>1, <2>2
<1>2. g \in Bijection(P, Q)
  BY <1>1 DEF Bijection, Injection, IsInjective, Surjection
<1>3. ExistsBijection(P, Q)
  BY <1>2 DEF ExistsBijection
<1>4. IsFiniteSet(Q) /\ Cardinality(Q) = Cardinality(P)
  BY <1>3, FS_Bijection
<1>5. ASSUME NEW n \in 1 .. Cardinality(P)
      PROVE  Nth(Q, n) = g[Nth(P, n)]
  <2>1. PICK p \in P : p = Nth(P, n) /\ Cardinality(Upto(P, p)) = n
    BY <1>5, NthIs
  <2>2. g[p] \in Q
    OBVIOUS
  <2> DEFINE h == [q \in Upto(P, p) |-> g[q]]
  <2>3. \A q \in P : g[q] \in Upto(Q, g[p]) <=> q \in Upto(P, p)
    BY <1>1 DEF Upto
  <2>4. h \in Bijection(Upto(P, p), Upto(Q, g[p]))
    <3>1. h \in [Upto(P, p) -> Upto(Q, g[p])]
      BY <2>3 DEF Upto
    <3>2. \A x, y \in Upto(P, p) : h[x] = h[y] => x = y
      BY <1>1 DEF Upto
    <3>3. \A y \in Upto(Q, g[p]) : \E x \in Upto(P, p) : h[x] = y
      <4> SUFFICES ASSUME NEW y \in Upto(Q, g[p])
                   PROVE  \E x \in Upto(P, p) : g[x] = y
        OBVIOUS
      <4>1. PICK x \in P : g[x] = y
        BY DEF Upto
      <4> QED
        BY <2>3, <4>1
    <3> HIDE DEF h
    <3> QED
      BY <3>1, <3>2, <3>3 DEF Bijection, Injection, IsInjective, Surjection
  <2>5. IsFiniteSet(Upto(P, p))
    <3>1. Upto(P, p) \in SUBSET P
      BY DEF Upto
    <3> QED
      BY <3>1, FS_Subset
  <2>6. Cardinality(Upto(Q, g[p])) = n
    <3>1. ExistsBijection(Upto(P, p), Upto(Q, g[p]))
      BY <2>4 DEF ExistsBijection
    <3> QED
      BY <2>1, <2>5, <3>1, FS_Bijection
  <2>7. Nth(Q, n) = g[p]
    BY <1>4, <2>2, <2>6, NthOfRank
  <2> QED
    BY <2>1, <2>7
<1> QED
  BY <1>4, <1>5

\* A part of a part of a sequence.
LEMMA PickOfPick ==
    ASSUME NEW P \in SUBSET Nat, IsFiniteSet(P), NEW I \in SUBSET (1 .. Cardinality(P)),
           NEW Q, \A i \in I : Nth(P, i) \in Q, \A q \in Q : \E i \in I : Nth(P, i) = q
    PROVE  /\ Q \in SUBSET P /\ IsFiniteSet(I) /\ IsFiniteSet(Q)
           /\ Cardinality(Q) = Cardinality(I)
           /\ \A n \in 1 .. Cardinality(I) : /\ Nth(I, n) \in I
                                             /\ Nth(Q, n) = Nth(P, Nth(I, n))
<1> DEFINE g == [i \in I |-> Nth(P, i)]
<1>1. Cardinality(P) \in Nat
  BY FS_CardinalityType
<1>2. I \in SUBSET Nat /\ IsFiniteSet(I)
  <2>1. IsFiniteSet(1 .. Cardinality(P))
    BY <1>1, FS_Interval
  <2>2. IsFiniteSet(I)
    BY <2>1, FS_Subset
  <2> QED
    BY <1>1, <2>2
<1>3. Q \in SUBSET P /\ g \in [I -> Q] /\ \A q \in Q : \E i \in I : g[i] = q
  BY NthIs
<1>4. \A i, j \in I : i < j => g[i] < g[j]
  BY NthGrows
<1>5. Q \in SUBSET Nat
  BY <1>3
<1>6. \A n \in 1 .. Cardinality(I) : Nth(I, n) \in I
  BY <1>2, NthIs
<1>7. \A i \in I : g[i] = Nth(P, i)
  OBVIOUS
<1> HIDE DEF g
<1>8. /\ IsFiniteSet(Q) /\ Cardinality(Q) = Cardinality(I)
      /\ \A n \in 1 .. Cardinality(I) : Nth(Q, n) = g[Nth(I, n)]
  BY <1>2, <1>3, <1>4, <1>5, GrowingKeepsRanks
<1> QED
  BY <1>2, <1>3, <1>6, <1>7, <1>8

\* All positions.
LEMMA NthOfAll ==
    ASSUME NEW N \in Nat, NEW n \in 1 .. N
    PROVE  Nth(1 .. N, n) = n /\ Cardinality(1 .. N) = N /\ IsFiniteSet(1 .. N)
<1>1. Cardinality(1 .. N) = N /\ IsFiniteSet(1 .. N)
  BY FS_Interval
<1>2. Upto(1 .. N, n) = 1 .. n
  BY DEF Upto
<1>3. Cardinality(Upto(1 .. N, n)) = n
  BY <1>2, FS_Interval
<1> QED
  BY <1>1, <1>3, NthOfRank

-----------------------------------------------------------------------------
(***************************************************************************)
(* Loops.  The induction theorems of the library are for operators; these  *)
(* are for sets, and follow from the least element of a set of numbers.    *)
(***************************************************************************)
LEMMA LeastElement ==
    ASSUME NEW T \in SUBSET Nat, T # {}
    PROVE  \E x \in T : \A y \in T : x <= y
<1> DEFINE R == OpToRel(<, Nat)
<1>1. IsWellFoundedOn(R, Nat)
  BY NatLessThanWellFounded
<1>2. \A x, y \in Nat : x < y => <<x, y>> \in R
  BY DEF OpToRel
<1> HIDE DEF R
<1>3. PICK x \in T : \A y \in T : ~(<<y, x>> \in R)
  BY <1>1, WFMin, Zenon
<1>4. \A y \in T : ~(y < x)
  <2> SUFFICES ASSUME NEW y \in T, y < x
               PROVE  FALSE
    OBVIOUS
  <2>1. x \in Nat /\ y \in Nat
    OBVIOUS
  <2>2. <<y, x>> \in R
    BY <1>2, <2>1
  <2> QED
    BY <1>3, <2>2
<1>5. \A y \in T : x <= y
  BY <1>4
<1> QED
  BY <1>5

LEMMA Induct ==
    ASSUME NEW S, 0 \in S, \A n \in Nat : n \in S => n + 1 \in S
    PROVE  \A n \in Nat : n \in S
<1> SUFFICES ASSUME Nat \ S # {}
             PROVE  FALSE
  OBVIOUS
<1>1. PICK x \in Nat \ S : \A y \in Nat \ S : x <= y
  BY LeastElement
<1>2. x # 0 /\ x - 1 \in Nat /\ x - 1 \notin Nat \ S
  BY <1>1
<1> QED
  BY <1>1, <1>2

\* A loop of N steps that stays within V.
Loop(V, a, N, G, f) ==
    /\ f \in [0 .. N -> V]
    /\ f[0] = a
    /\ \A n \in 1 .. N : f[n] = G[n][f[n - 1]]

LEMMA LoopExists ==
    ASSUME NEW V, NEW a \in V, NEW N \in Nat, NEW G \in [1 .. N -> [V -> V]]
    PROVE  \E f : Loop(V, a, N, G, f)
<1> DEFINE S == {m \in Nat : m <= N => \E f : Loop(V, a, m, G, f)}
<1>1. 0 \in S
  <2> DEFINE f == [n \in 0 .. 0 |-> a]
  <2>1. Loop(V, a, 0, G, f)
    BY DEF Loop
  <2> HIDE DEF f
  <2> QED
    BY <2>1
<1>2. ASSUME NEW m \in Nat, m \in S
      PROVE  m + 1 \in S
  <2> SUFFICES ASSUME m + 1 <= N
               PROVE  \E f : Loop(V, a, m + 1, G, f)
    OBVIOUS
  <2>1. PICK f : Loop(V, a, m, G, f)
    BY <1>2
  <2> DEFINE x == G[m + 1][f[m]]
             h == [n \in 0 .. m + 1 |-> IF n = m + 1 THEN x ELSE f[n]]
  <2>2. f \in [0 .. m -> V] /\ f[0] = a /\ \A n \in 1 .. m : f[n] = G[n][f[n - 1]]
    BY <2>1 DEF Loop
  <2>3. x \in V
    <3>1. f[m] \in V /\ m + 1 \in 1 .. N
      BY <2>2
    <3>2. G[m + 1] \in [V -> V]
      BY <3>1
    <3> QED
      BY <3>1, <3>2
  <2>4. h \in [0 .. m + 1 -> V]
    BY <2>2, <2>3
  <2>5. /\ h[0] = a /\ h[m + 1] = x
        /\ \A n \in 0 .. m : h[n] = f[n]
    BY <2>2
  <2>6. \A n \in 1 .. m + 1 : h[n] = G[n][h[n - 1]]
    <3> SUFFICES ASSUME NEW n \in 1 .. m + 1
                 PROVE  h[n] = G[n][h[n - 1]]
      OBVIOUS
    <3>1. n \in 1 .. m \/ n = m + 1
      OBVIOUS
    <3>2. n - 1 \in 0 .. m /\ h[n - 1] = f[n - 1]
      BY <2>5
    <3> HIDE DEF h
    <3> QED
      BY <2>2, <2>5, <3>1, <3>2
  <2>7. Loop(V, a, m + 1, G, h)
    BY <2>4, <2>5, <2>6 DEF Loop
  <2> QED
    BY <2>7
<1>3. N \in S
  <2> HIDE DEF S
  <2> QED
    BY <1>1, <1>2, Induct
<1> QED
  BY <1>3

LEMMA DeleteAllIsLoop ==
    ASSUME NEW vw, NEW keys, NEW event, NEW V, Len(keys) \in Nat, Outcome(vw, "Applied") \in V,
           \A o \in V : \A n \in 1 .. Len(keys) : delete(o.view, keys[n], event) \in V
    PROVE  \E r : /\ r[0] = Outcome(vw, "Applied") /\ deleteAll(vw, keys, event) = r[Len(keys)]
                  /\ \A n \in 0 .. Len(keys) : r[n] \in V
                  /\ \A n \in 1 .. Len(keys) : r[n] = delete(r[n - 1].view, keys[n], event)
<1> DEFINE N == Len(keys)
           a == Outcome(vw, "Applied")
           G == [n \in 1 .. N |-> [o \in V |-> delete(o.view, keys[n], event)]]
           E(f) == [n \in 0 .. N |-> IF n = 0 THEN a ELSE delete(f[n - 1].view, keys[n], event)]
<1>1. PICK f : Loop(V, a, N, G, f)
  <2>1. G \in [1 .. N -> [V -> V]]
    OBVIOUS
  <2> HIDE DEF G
  <2> QED
    BY <2>1, LoopExists
<1>2. f = E(f)
  <2>1. /\ f \in [0 .. N -> V] /\ f[0] = a
        /\ \A n \in 1 .. N : f[n] = G[n][f[n - 1]]
    BY <1>1 DEF Loop
  <2>2. \A n \in 1 .. N : f[n] = delete(f[n - 1].view, keys[n], event)
    <3> SUFFICES ASSUME NEW n \in 1 .. N
                 PROVE  f[n] = delete(f[n - 1].view, keys[n], event)
      OBVIOUS
    <3>1. f[n - 1] \in V
      BY <2>1
    <3> QED
      BY <2>1, <3>1
  <2>3. \A n \in 0 .. N : n = 0 \/ n \in 1 .. N
    OBVIOUS
  <2> HIDE DEF G, a
  <2>4. \A n \in 0 .. N : f[n] = E(f)[n]
    BY <2>1, <2>2, <2>3
  <2> QED
    BY <2>1, <2>4
<1>3. PICK r : r = E(r) /\ deleteAll(vw, keys, event) = r[N]
  <2>1. deleteAll(vw, keys, event) = (CHOOSE r : r = E(r))[N]
    BY DEF deleteAll
  <2> HIDE DEF E
  <2> QED
    BY <1>2, <2>1
<1> DEFINE S == {n \in Nat : n <= N => r[n] \in V}
<1>4. 0 \in S
  BY <1>3
<1>5. \A n \in Nat : n \in S => n + 1 \in S
  BY <1>3
<1>6. \A n \in Nat : n \in S
  <2> HIDE DEF S
  <2> QED
    BY <1>4, <1>5, Induct
<1>7. \A n \in 0 .. N : r[n] \in V
  BY <1>6
<1>8. r[0] = a /\ \A n \in 1 .. N : r[n] = delete(r[n - 1].view, keys[n], event)
  BY <1>3
<1> QED
  BY <1>3, <1>7, <1>8

LEMMA ChangeAllIsLoop ==
    ASSUME NEW vw, NEW keys, NEW event, NEW value, NEW brokenKey, NEW V, Len(keys) \in Nat,
           Outcome(vw, "Applied") \in V,
           \A o \in V : \A n \in 1 .. Len(keys) :
              change(o.view, keys[n], event, value, keys[n] = brokenKey) \in V
    PROVE  \E r : /\ r[0] = Outcome(vw, "Applied")
                  /\ changeAll(vw, keys, event, value, brokenKey) = r[Len(keys)]
                  /\ \A n \in 0 .. Len(keys) : r[n] \in V
                  /\ \A n \in 1 .. Len(keys) :
                        r[n] = IF r[n - 1].outcome = "error" THEN r[n - 1]
                               ELSE change(r[n - 1].view, keys[n], event, value,
                                           keys[n] = brokenKey)
<1> DEFINE N == Len(keys)
           a == Outcome(vw, "Applied")
           Body(o, n) == IF o.outcome = "error" THEN o
                         ELSE change(o.view, keys[n], event, value, keys[n] = brokenKey)
           G == [n \in 1 .. N |-> [o \in V |-> Body(o, n)]]
           E(f) == [n \in 0 .. N |-> IF n = 0 THEN a ELSE Body(f[n - 1], n)]
<1>1. \A o \in V : \A n \in 1 .. N : Body(o, n) \in V
  OBVIOUS
<1>2. changeAll(vw, keys, event, value, brokenKey) = (CHOOSE r : r = E(r))[N]
  BY DEF changeAll
<1> HIDE DEF Body
<1>3. PICK f : Loop(V, a, N, G, f)
  <2>1. G \in [1 .. N -> [V -> V]]
    BY <1>1
  <2> HIDE DEF G
  <2> QED
    BY <2>1, LoopExists
<1>4. f = E(f)
  <2>1. /\ f \in [0 .. N -> V] /\ f[0] = a
        /\ \A n \in 1 .. N : f[n] = G[n][f[n - 1]]
    BY <1>3 DEF Loop
  <2>2. \A n \in 1 .. N : f[n] = Body(f[n - 1], n)
    <3> SUFFICES ASSUME NEW n \in 1 .. N
                 PROVE  f[n] = Body(f[n - 1], n)
      OBVIOUS
    <3>1. f[n - 1] \in V
      <4>1. f \in [0 .. N -> V] /\ n - 1 \in 0 .. N
        BY <2>1
      <4> QED
        BY <4>1, Zenon
    <3> QED
      BY <2>1, <3>1
  <2>3. \A n \in 0 .. N : n = 0 \/ n \in 1 .. N
    OBVIOUS
  <2> HIDE DEF G, a
  <2>4. \A n \in 0 .. N : f[n] = E(f)[n]
    BY <2>1, <2>2, <2>3
  <2> QED
    BY <2>1, <2>4
<1>5. PICK r : r = E(r) /\ changeAll(vw, keys, event, value, brokenKey) = r[N]
  <2> HIDE DEF E
  <2> QED
    BY <1>2, <1>4
<1> DEFINE S == {n \in Nat : n <= N => r[n] \in V}
<1>6. 0 \in S
  BY <1>5
<1>7. \A n \in Nat : n \in S => n + 1 \in S
  BY <1>1, <1>5
<1>8. \A n \in Nat : n \in S
  <2> HIDE DEF S
  <2> QED
    BY <1>6, <1>7, Induct
<1>9. \A n \in 0 .. N : r[n] \in V
  BY <1>8
<1>10. r[0] = a
  BY <1>5
<1>11. ASSUME NEW n \in 1 .. N
       PROVE  r[n] = Body(r[n - 1], n)
  <2>1. n \in 0 .. N /\ n # 0 /\ E(r)[n] = Body(r[n - 1], n)
    OBVIOUS
  <2> HIDE DEF E
  <2> QED
    BY <1>5, <2>1
<1>12. \A n \in 1 .. N : r[n] = Body(r[n - 1], n)
  BY <1>11
<1> HIDE DEF E, G, S
<1> QED
  BY <1>5, <1>9, <1>10, <1>12 DEF Body

-----------------------------------------------------------------------------
(***************************************************************************)
(* The inductive invariant.                                                *)
(***************************************************************************)
Views ==
    [entries : UNION {[D -> Entry] : D \in SUBSET Keys}, order : Seq(Keys),
     hasIndex : BOOLEAN, index : [Values -> SUBSET Keys]]

\* The order holds the key of every entry, at the entry's position.
Positioned(vw) ==
    \A k \in DOMAIN vw.entries : /\ vw.entries[k].position \in DOMAIN vw.order
                                 /\ vw.order[vw.entries[k].position] = k

\* The index holds the keys of the entries, by their values.
Indexed(vw) ==
    vw.hasIndex =>
        \A u \in Values : vw.index[u] = {k \in DOMAIN vw.entries : vw.entries[k].value = u}

Bounded(vw) == Len(vw.order) < 2 * Cardinality(DOMAIN vw.entries) + Slack

SoundViews == {vw \in Views : Positioned(vw) /\ Indexed(vw)}

GoodViews == {vw \in SoundViews : Bounded(vw)}

Events == [number : Nat, part : Nat]

ViewInv ==
    /\ view \in GoodViews
    /\ revision \in Nat /\ number \in Nat /\ next \in Nat \ {0} /\ retries \in Nat
    /\ pc \in {"idle", "applying", "stopped"}
    /\ calls \in Seq([call : Calls, part : Nat])
    /\ \A i \in DOMAIN calls : NeedsIndex(calls[i].call) => view.hasIndex

LEMMA ViewFields ==
    ASSUME NEW vw \in Views
    PROVE  /\ DOMAIN vw.entries \in SUBSET Keys
           /\ vw.entries \in [DOMAIN vw.entries -> Entry]
           /\ vw.order \in Seq(Keys) /\ Len(vw.order) \in Nat
           /\ DOMAIN vw.order = 1 .. Len(vw.order)
           /\ vw.hasIndex \in BOOLEAN
           /\ vw.index \in [Values -> SUBSET Keys]
<1>1. vw.entries \in UNION {[D -> Entry] : D \in SUBSET Keys}
  BY DEF Views
<1>2. PICK D \in SUBSET Keys : vw.entries \in [D -> Entry]
  BY <1>1
<1>3. vw.order \in Seq(Keys) /\ vw.hasIndex \in BOOLEAN /\ vw.index \in [Values -> SUBSET Keys]
  BY DEF Views
<1> QED
  BY <1>2, <1>3

LEMMA EntryFields ==
    ASSUME NEW vw \in Views, NEW k \in DOMAIN vw.entries
    PROVE  /\ k \in Keys /\ vw.entries[k] \in Entry
           /\ vw.entries[k].value \in Values /\ vw.entries[k].number \in Nat
           /\ vw.entries[k].part \in Nat /\ vw.entries[k].position \in Nat
<1>1. k \in Keys /\ vw.entries[k] \in Entry
  BY ViewFields
<1> QED
  BY <1>1 DEF Entry

LEMMA ViewBuilt ==
    ASSUME NEW D \in SUBSET Keys, NEW e \in [D -> Entry], NEW o \in Seq(Keys),
           NEW h \in BOOLEAN, NEW i \in [Values -> SUBSET Keys]
    PROVE  [entries |-> e, order |-> o, hasIndex |-> h, index |-> i] \in Views
<1>1. e \in UNION {[E -> Entry] : E \in SUBSET Keys}
  OBVIOUS
<1> QED
  BY <1>1 DEF Views

LEMMA ViewIsRecord ==
    ASSUME NEW vw \in Views
    PROVE  vw = [entries |-> vw.entries, order |-> vw.order, hasIndex |-> vw.hasIndex,
                 index |-> vw.index]
BY DEF Views

\* The positions of some entries.
LEMMA PositionsAre ==
    ASSUME NEW vw \in SoundViews, NEW K \in SUBSET DOMAIN vw.entries
    PROVE  LET Q == PositionsOf(vw, K)
           IN  /\ Q \in SUBSET DOMAIN vw.order /\ Q \in SUBSET Nat
               /\ IsFiniteSet(Q) /\ IsFiniteSet(K) /\ Cardinality(Q) = Cardinality(K)
               /\ Q = {p \in CurrentPositions(vw) : vw.order[p] \in K}
               /\ \A p \in Q : /\ vw.order[p] \in K /\ vw.entries[vw.order[p]].position = p
                               /\ KeyAt(vw, K, p) = vw.order[p]
<1> DEFINE Q == PositionsOf(vw, K)
           f == [p \in Q |-> vw.order[p]]
<1>1. vw \in Views /\ Positioned(vw)
  BY DEF SoundViews
<1>2. \A k \in K : /\ vw.entries[k].position \in DOMAIN vw.order
                   /\ vw.order[vw.entries[k].position] = k
  BY <1>1 DEF Positioned
<1>3. DOMAIN vw.order = 1 .. Len(vw.order) /\ Len(vw.order) \in Nat
  BY <1>1, ViewFields
<1>4. Q \in SUBSET DOMAIN vw.order
  BY <1>2 DEF PositionsOf
<1>5. Q \in SUBSET Nat
  BY <1>3, <1>4
<1>6. IsFiniteSet(Q)
  <2>1. IsFiniteSet(1 .. Len(vw.order))
    BY <1>3, FS_Interval
  <2> QED
    BY <1>3, <1>4, <2>1, FS_Subset
<1>7. \A p \in Q : vw.order[p] \in K /\ vw.entries[vw.order[p]].position = p
  BY <1>2 DEF PositionsOf
<1>8. f \in Bijection(Q, K)
  <2>1. f \in [Q -> K] /\ \A p \in Q : f[p] = vw.order[p]
    BY <1>7
  <2>2. \A p, q \in Q : f[p] = f[q] => p = q
    BY <1>7
  <2>3. \A k \in K : \E p \in Q : f[p] = k
    BY <1>2 DEF PositionsOf
  <2> HIDE DEF f, Q
  <2> QED
    BY <2>1, <2>2, <2>3 DEF Bijection, Injection, IsInjective, Surjection
<1>9. IsFiniteSet(K) /\ Cardinality(Q) = Cardinality(K)
  <2> HIDE DEF f, Q
  <2>1. ExistsBijection(Q, K)
    BY <1>8 DEF ExistsBijection
  <2> QED
    BY <1>6, <2>1, FS_Bijection
<1>10. \A p \in Q : KeyAt(vw, K, p) = vw.order[p]
  <2> SUFFICES ASSUME NEW p \in Q
               PROVE  KeyAt(vw, K, p) = vw.order[p]
    OBVIOUS
  <2>1. vw.order[p] \in K /\ vw.entries[vw.order[p]].position = p
    BY <1>7
  <2>2. PICK l : l = KeyAt(vw, K, p)
    OBVIOUS
  <2>3. l \in K /\ vw.entries[l].position = p
    BY <2>1, <2>2 DEF KeyAt
  <2> QED
    BY <1>2, <2>1, <2>2, <2>3
<1>11. Q = {p \in CurrentPositions(vw) : vw.order[p] \in K}
  <2>1. \A p \in Q : p \in CurrentPositions(vw) /\ vw.order[p] \in K
    <3> SUFFICES ASSUME NEW p \in Q
                 PROVE  p \in CurrentPositions(vw) /\ vw.order[p] \in K
      OBVIOUS
    <3>1. vw.order[p] \in K /\ vw.entries[vw.order[p]].position = p /\ p \in DOMAIN vw.order
      BY <1>4, <1>7
    <3> HIDE DEF Q
    <3> QED
      BY <3>1 DEF CurrentPositions, IsCurrent, IsFound
  <2>2. \A p \in CurrentPositions(vw) : vw.order[p] \in K => p \in Q
    BY DEF CurrentPositions, IsCurrent, PositionsOf
  <2> HIDE DEF Q
  <2> QED
    BY <2>1, <2>2
<1> HIDE DEF Q
<1> QED
  BY <1>4, <1>5, <1>6, <1>7, <1>9, <1>10, <1>11 DEF Q

LEMMA CurrentPositionsAre ==
    ASSUME NEW vw \in SoundViews
    PROVE  LET P == CurrentPositions(vw)
           IN  /\ P \in SUBSET DOMAIN vw.order /\ P \in SUBSET Nat
               /\ IsFiniteSet(P) /\ IsFiniteSet(DOMAIN vw.entries)
               /\ Cardinality(P) = Cardinality(DOMAIN vw.entries) /\ Cardinality(P) \in Nat
               /\ \A p \in P : /\ vw.order[p] \in DOMAIN vw.entries
                               /\ vw.entries[vw.order[p]].position = p
               /\ \A k \in DOMAIN vw.entries : /\ vw.entries[k].position \in P
                                               /\ vw.order[vw.entries[k].position] = k
<1> DEFINE P == CurrentPositions(vw)
           Q == PositionsOf(vw, DOMAIN vw.entries)
<1>1. /\ Q \in SUBSET DOMAIN vw.order /\ Q \in SUBSET Nat
      /\ IsFiniteSet(Q) /\ IsFiniteSet(DOMAIN vw.entries)
      /\ Cardinality(Q) = Cardinality(DOMAIN vw.entries)
      /\ Q = {p \in P : vw.order[p] \in DOMAIN vw.entries}
  BY PositionsAre
<1>2. \A p \in P : /\ vw.order[p] \in DOMAIN vw.entries
                   /\ vw.entries[vw.order[p]].position = p
  BY DEF CurrentPositions, IsCurrent, IsFound
<1>3. \A k \in DOMAIN vw.entries : /\ vw.entries[k].position \in DOMAIN vw.order
                                   /\ vw.order[vw.entries[k].position] = k
  BY DEF SoundViews, Positioned
<1>4. \A k \in DOMAIN vw.entries : vw.entries[k].position \in Q
  BY DEF PositionsOf
<1> HIDE DEF P, Q
<1>5. P = Q
  BY <1>1, <1>2
<1>6. Cardinality(P) \in Nat
  BY <1>1, <1>5, FS_CardinalityType
<1> QED
  BY <1>1, <1>2, <1>3, <1>4, <1>5, <1>6 DEF P

-----------------------------------------------------------------------------
(***************************************************************************)
(* What the functions of the view do to its parts.                         *)
(***************************************************************************)
IndexAdded(vw, key, value) ==
    IF vw.hasIndex THEN [vw.index EXCEPT ![value] = @ \cup {key}] ELSE vw.index

IndexRemoved(vw, key, value) ==
    IF vw.hasIndex THEN [vw.index EXCEPT ![value] = @ \ {key}] ELSE vw.index

LEMMA AddIs ==
    ASSUME NEW vw \in GoodViews, NEW key \in Keys \ DOMAIN vw.entries, NEW value \in Values,
           NEW event \in Events
    PROVE  LET new == add(vw, key, value, event)
           IN  /\ new \in GoodViews
               /\ DOMAIN new.entries = DOMAIN vw.entries \cup {key}
               /\ new.order = Append(vw.order, key)
               /\ new.hasIndex = vw.hasIndex
               /\ \A k \in DOMAIN vw.entries : new.entries[k] = vw.entries[k]
               /\ new.entries[key] = [value |-> value, number |-> event.number,
                                      part |-> event.part, position |-> Len(vw.order) + 1]
<1> DEFINE entry == [value |-> value, number |-> event.number, part |-> event.part,
                     position |-> Len(vw.order) + 1]
           D == DOMAIN vw.entries \cup {key}
           entries == [k \in D |-> IF k = key THEN entry ELSE vw.entries[k]]
           order == Append(vw.order, key)
           index == IndexAdded(vw, key, value)
           new == [entries |-> entries, order |-> order, hasIndex |-> vw.hasIndex, index |-> index]
<1>1. vw \in Views /\ vw \in SoundViews /\ Positioned(vw) /\ Indexed(vw) /\ Bounded(vw)
  BY DEF GoodViews, SoundViews
<1>2. /\ DOMAIN vw.entries \in SUBSET Keys
      /\ vw.entries \in [DOMAIN vw.entries -> Entry]
      /\ vw.order \in Seq(Keys) /\ Len(vw.order) \in Nat
      /\ DOMAIN vw.order = 1 .. Len(vw.order)
      /\ vw.hasIndex \in BOOLEAN
      /\ vw.index \in [Values -> SUBSET Keys]
  BY <1>1, ViewFields
<1>3. add(vw, key, value, event) = new
  <2>1. vw = [entries |-> vw.entries, order |-> vw.order, hasIndex |-> vw.hasIndex,
              index |-> vw.index]
    BY <1>1, ViewIsRecord
  <2>2. PICK e, o, h, i : /\ e = vw.entries /\ o = vw.order /\ h = vw.hasIndex /\ i = vw.index
                          /\ vw = [entries |-> e, order |-> o, hasIndex |-> h, index |-> i]
    BY <2>1
  <2> QED
    BY <2>2 DEF add, IndexAdd, IndexAdded
<1>4. new \in Views
  <2>1. entry \in Entry
    BY <1>2 DEF Entry, Events
  <2>2. D \in SUBSET Keys
    BY <1>2
  <2> HIDE DEF entry
  <2>3. entries \in [D -> Entry]
    BY <1>2, <2>1
  <2>4. order \in Seq(Keys)
    BY <1>2
  <2>5. index \in [Values -> SUBSET Keys]
    BY <1>2 DEF IndexAdded
  <2> HIDE DEF D, entries, order, index
  <2> QED
    BY <1>2, <2>2, <2>3, <2>4, <2>5, ViewBuilt
<1>5. /\ new.entries = entries /\ new.order = order
      /\ new.hasIndex = vw.hasIndex /\ new.index = index
  OBVIOUS
<1>6. /\ DOMAIN entries = D /\ entries[key] = entry
      /\ \A k \in DOMAIN vw.entries : k # key /\ entries[k] = vw.entries[k]
  OBVIOUS
<1> HIDE DEF new
<1>7. Positioned(new)
  <2>1. /\ Len(order) = Len(vw.order) + 1 /\ DOMAIN order = 1 .. Len(vw.order) + 1
        /\ order[Len(vw.order) + 1] = key
        /\ \A p \in 1 .. Len(vw.order) : order[p] = vw.order[p]
    BY <1>2
  <2>2. entries[key].position = Len(vw.order) + 1
    BY <1>6
  <2> HIDE DEF entries, order, entry
  <2> SUFFICES ASSUME NEW k \in D
               PROVE  entries[k].position \in DOMAIN order /\ order[entries[k].position] = k
    BY <1>5, <1>6 DEF Positioned
  <2>3. CASE k = key
    BY <1>2, <2>1, <2>2, <2>3
  <2>4. CASE k \in DOMAIN vw.entries
    <3>1. /\ vw.entries[k].position \in 1 .. Len(vw.order)
          /\ vw.order[vw.entries[k].position] = k
      BY <1>1, <1>2, <2>4 DEF Positioned
    <3> QED
      BY <1>2, <1>6, <2>1, <2>4, <3>1
  <2> QED
    BY <2>3, <2>4
<1>8. Indexed(new)
  <2> HIDE DEF entries, index, D
  <2> SUFFICES ASSUME vw.hasIndex, NEW u \in Values
               PROVE  index[u] = {k \in D : entries[k].value = u}
    BY <1>5, <1>6 DEF Indexed
  <2>1. vw.index[u] = {k \in DOMAIN vw.entries : vw.entries[k].value = u}
    BY <1>1 DEF Indexed
  <2>2. index[u] = IF u = value THEN vw.index[u] \cup {key} ELSE vw.index[u]
    BY <1>2 DEF IndexAdded, index
  <2>3. entries[key].value = value
    BY <1>6
  <2> HIDE DEF entry
  <2>4. \A k \in DOMAIN vw.entries : k # key /\ entries[k].value = vw.entries[k].value
    BY <1>6
  <2> QED
    BY <2>1, <2>2, <2>3, <2>4 DEF D
<1>9. Bounded(new)
  <2>1. Len(order) = Len(vw.order) + 1
    BY <1>2
  <2>2. IsFiniteSet(DOMAIN vw.entries)
    BY <1>1, CurrentPositionsAre
  <2>3. Cardinality(DOMAIN vw.entries) \in Nat /\ Cardinality(D) = Cardinality(DOMAIN vw.entries) + 1
    BY <2>2, FS_AddElement, FS_CardinalityType
  <2> HIDE DEF entries, order, D
  <2> QED
    BY <1>1, <1>2, <1>5, <1>6, <2>1, <2>3, ViewAssumption DEF Bounded
<1>10. new \in GoodViews
  BY <1>4, <1>7, <1>8, <1>9 DEF GoodViews, SoundViews
<1> HIDE DEF entries, order, index, D
<1> QED
  BY <1>3, <1>5, <1>6, <1>10 DEF D, order

Names == {"Added", "Applied", "AlreadyApplied", "Missing", "error"}

\* The item of one key has been changed, in its place.
ChangedTo(vw, key, event, value, new) ==
    /\ key \in DOMAIN vw.entries /\ isNewerThan(event, vw.entries[key])
    /\ new \in GoodViews
    /\ DOMAIN new.entries = DOMAIN vw.entries
    /\ new.order = vw.order /\ new.hasIndex = vw.hasIndex
    /\ \A k \in DOMAIN vw.entries \ {key} : new.entries[k] = vw.entries[k]
    /\ new.entries[key] = [vw.entries[key] EXCEPT !.value = value, !.number = event.number,
                                                  !.part = event.part]

\* The event is yet to be applied to the item of the key.
Due(vw, key, event) == key \in DOMAIN vw.entries /\ isNewerThan(event, vw.entries[key])

ChangeMade(vw, key, event, value, o) ==
    \/ \E x \in Names : o = Outcome(vw, x) /\ (x = "error" \/ ~Due(vw, key, event))
    \/ \E new : ChangedTo(vw, key, event, value, new) /\ o = Outcome(new, "Applied")

LEMMA ChangeIs ==
    ASSUME NEW vw \in GoodViews, NEW key, NEW event \in Events, NEW value \in Values,
           NEW isBroken
    PROVE  ChangeMade(vw, key, event, value, change(vw, key, event, value, isBroken))
<1> DEFINE old == vw.entries[key]
           reindexed == IndexAdd(IndexRemove(vw, key, old.value), key, value)
           new == [reindexed EXCEPT !.entries[key] =
                    [@ EXCEPT !.value = value, !.number = event.number, !.part = event.part]]
           made == change(vw, key, event, value, isBroken)
<1>1. \/ \E x \in Names : made = Outcome(vw, x) /\ (x = "error" \/ ~Due(vw, key, event))
      \/ /\ IsFound(vw, key) /\ isNewerThan(event, vw.entries[key])
         /\ made = Outcome(new, "Applied")
  <2> HIDE DEF new
  <2>1. CASE ~IsFound(vw, key)
    BY <2>1 DEF change, Names, Due, IsFound
  <2>2. CASE IsFound(vw, key) /\ ~isNewerThan(event, vw.entries[key])
    BY <2>2 DEF change, Names, Due, IsFound
  <2>3. CASE IsFound(vw, key) /\ isNewerThan(event, vw.entries[key])
    <3>1. change(vw, key, event, value, isBroken) =
            IF isBroken THEN Outcome(vw, "error") ELSE Outcome(new, "Applied")
      BY <2>3 DEF change, new
    <3> QED
      BY <2>3, <3>1 DEF Names
  <2> QED
    BY <2>1, <2>2, <2>3
<1> SUFFICES ASSUME IsFound(vw, key), isNewerThan(event, vw.entries[key])
             PROVE  ChangedTo(vw, key, event, value, new)
  <2> SUFFICES ChangeMade(vw, key, event, value, made)
    OBVIOUS
  <2> HIDE DEF new, made
  <2> QED
    BY <1>1 DEF ChangeMade
<1>2. key \in DOMAIN vw.entries
  BY DEF IsFound
<1>3. vw \in Views /\ vw \in SoundViews /\ Positioned(vw) /\ Indexed(vw) /\ Bounded(vw)
  BY DEF GoodViews, SoundViews
<1>4. /\ DOMAIN vw.entries \in SUBSET Keys
      /\ vw.entries \in [DOMAIN vw.entries -> Entry]
      /\ vw.order \in Seq(Keys)
      /\ vw.hasIndex \in BOOLEAN
      /\ vw.index \in [Values -> SUBSET Keys]
  BY <1>3, ViewFields
<1>5. old \in Entry /\ old.value \in Values /\ key \in Keys
  BY <1>2, <1>3, EntryFields
<1> DEFINE entry == [old EXCEPT !.value = value, !.number = event.number, !.part = event.part]
           D == DOMAIN vw.entries
           entries == [vw.entries EXCEPT ![key] = entry]
           removed == [vw.index EXCEPT ![old.value] = @ \ {key}]
           index == IF vw.hasIndex THEN [removed EXCEPT ![value] = @ \cup {key}] ELSE vw.index
           built == [entries |-> entries, order |-> vw.order, hasIndex |-> vw.hasIndex,
                     index |-> index]
<1>6. new = built
  <2>1. vw = [entries |-> vw.entries, order |-> vw.order, hasIndex |-> vw.hasIndex,
              index |-> vw.index]
    BY <1>3, ViewIsRecord
  <2>2. PICK x : x = old.value
    OBVIOUS
  <2>3. PICK e, o, h, i : /\ e = vw.entries /\ o = vw.order /\ h = vw.hasIndex /\ i = vw.index
                          /\ vw = [entries |-> e, order |-> o, hasIndex |-> h, index |-> i]
    BY <2>1
  <2> DEFINE idx == IF h THEN [[i EXCEPT ![x] = @ \ {key}] EXCEPT ![value] = @ \cup {key}] ELSE i
  <2>4. reindexed = [entries |-> e, order |-> o, hasIndex |-> h, index |-> idx]
    BY <2>2, <2>3 DEF IndexAdd, IndexRemove
  <2>5. index = idx
    BY <2>2, <2>3
  <2> HIDE DEF idx, index, reindexed
  <2> QED
    BY <2>3, <2>4, <2>5
<1>7. /\ entry.value = value /\ entry.position = old.position /\ entry \in Entry
  BY <1>5 DEF Entry, Events
<1>8. built \in Views
  <2> HIDE DEF entry
  <2>1. entries \in [D -> Entry]
    BY <1>4, <1>7
  <2>2. removed \in [Values -> SUBSET Keys]
    BY <1>4, <1>5
  <2> HIDE DEF removed
  <2>3. index \in [Values -> SUBSET Keys]
    BY <1>4, <1>5, <2>2
  <2> HIDE DEF entries, index
  <2> QED
    BY <1>4, <2>1, <2>3, ViewBuilt
<1>9. /\ built.entries = entries /\ built.order = vw.order
      /\ built.hasIndex = vw.hasIndex /\ built.index = index
  OBVIOUS
<1>10. /\ DOMAIN entries = D /\ entries[key] = entry
       /\ \A k \in D \ {key} : entries[k] = vw.entries[k]
  BY <1>2, <1>4
<1> HIDE DEF built, new
<1>11. Positioned(built)
  <2> HIDE DEF entries
  <2>1. \A k \in D : entries[k].position = vw.entries[k].position
    <3> HIDE DEF entry
    <3> QED
      BY <1>7, <1>10
  <2> QED
    BY <1>3, <1>9, <1>10, <2>1 DEF Positioned
<1>12. Indexed(built)
  <2> HIDE DEF entries, entry, index
  <2> SUFFICES ASSUME vw.hasIndex, NEW u \in Values
               PROVE  index[u] = {k \in D : entries[k].value = u}
    BY <1>9, <1>10 DEF Indexed
  <2>1. vw.index[u] = {k \in D : vw.entries[k].value = u}
    BY <1>3 DEF Indexed
  <2>2. removed[u] = IF u = old.value THEN vw.index[u] \ {key} ELSE vw.index[u]
    BY <1>4
  <2>3. removed \in [Values -> SUBSET Keys]
    BY <1>4, <1>5
  <2> HIDE DEF removed
  <2>4. index[u] = IF u = value THEN removed[u] \cup {key} ELSE removed[u]
    BY <2>3 DEF index
  <2>5. entries[key].value = value /\ \A k \in D \ {key} : entries[k].value = vw.entries[k].value
    BY <1>7, <1>10
  <2> QED
    BY <1>2, <2>1, <2>2, <2>4, <2>5
<1>13. Bounded(built)
  BY <1>3, <1>9, <1>10 DEF Bounded
<1>14. built \in GoodViews
  BY <1>8, <1>11, <1>12, <1>13 DEF GoodViews, SoundViews
<1> HIDE DEF entries
<1> QED
  BY <1>2, <1>6, <1>9, <1>10, <1>14 DEF ChangedTo

\* What is left of a view: some of its items, in their order.
Left(vw, new) ==
    /\ DOMAIN new.entries \in SUBSET DOMAIN vw.entries
    /\ \A k \in DOMAIN new.entries : ItemOf(k, new.entries[k]) = ItemOf(k, vw.entries[k])
    /\ \A k, l \in DOMAIN new.entries :
          new.entries[k].position < new.entries[l].position =>
              vw.entries[k].position < vw.entries[l].position

LEMMA LeftOfLeft ==
    ASSUME NEW vw, NEW mid, NEW new, Left(vw, mid), Left(mid, new)
    PROVE  Left(vw, new)
BY DEF Left

LEMMA PickIsSeq ==
    ASSUME NEW seq, NEW S, NEW P, Cardinality(P) \in Nat,
           \A n \in 1 .. Cardinality(P) : seq[Nth(P, n)] \in S
    PROVE  /\ Pick(seq, P) \in Seq(S) /\ Len(Pick(seq, P)) = Cardinality(P)
           /\ DOMAIN Pick(seq, P) = 1 .. Cardinality(P)
<1>1. PICK N \in Nat : N = Cardinality(P)
  OBVIOUS
<1>2. PICK f : f = Pick(seq, P)
  OBVIOUS
<1>3. f \in [1 .. N -> S]
  BY <1>1, <1>2 DEF Pick
<1>4. f \in Seq(S) /\ Len(f) = N /\ DOMAIN f = 1 .. N
  BY <1>3
<1> QED
  BY <1>1, <1>2, <1>4

LEMMA CurrentKeysAre ==
    ASSUME NEW vw \in SoundViews
    PROVE  LET P == CurrentPositions(vw)
               keys == CurrentKeys(vw)
           IN  /\ keys \in Seq(DOMAIN vw.entries) /\ keys \in Seq(Keys)
               /\ Len(keys) = Cardinality(DOMAIN vw.entries)
               /\ DOMAIN keys = 1 .. Len(keys)
               /\ \A n \in DOMAIN keys : /\ keys[n] = vw.order[Nth(P, n)]
                                         /\ keys[n] \in DOMAIN vw.entries
                                         /\ vw.entries[keys[n]].position = Nth(P, n)
               /\ \A k \in DOMAIN vw.entries : \E n \in DOMAIN keys : keys[n] = k
               /\ \A m, n \in DOMAIN keys :
                     m < n => vw.entries[keys[m]].position < vw.entries[keys[n]].position
<1> DEFINE P == CurrentPositions(vw)
           keys == CurrentKeys(vw)
           N == Cardinality(P)
<1>1. /\ P \in SUBSET Nat /\ IsFiniteSet(P) /\ N = Cardinality(DOMAIN vw.entries) /\ N \in Nat
      /\ \A p \in P : /\ vw.order[p] \in DOMAIN vw.entries
                      /\ vw.entries[vw.order[p]].position = p
      /\ \A k \in DOMAIN vw.entries : /\ vw.entries[k].position \in P
                                      /\ vw.order[vw.entries[k].position] = k
  BY CurrentPositionsAre
<1>2. DOMAIN vw.entries \in SUBSET Keys
  BY ViewFields DEF SoundViews
<1>3. keys = Pick(vw.order, P)
  BY DEF CurrentKeys
<1> HIDE DEF P, keys
<1>4. \A n \in 1 .. N : /\ Nth(P, n) \in P /\ vw.order[Nth(P, n)] \in DOMAIN vw.entries
                        /\ vw.order[Nth(P, n)] \in Keys
  BY <1>1, <1>2, NthIs
<1>5. keys \in Seq(DOMAIN vw.entries) /\ Len(keys) = N /\ DOMAIN keys = 1 .. N
  BY <1>1, <1>3, <1>4, PickIsSeq
<1>6. keys \in Seq(Keys)
  BY <1>1, <1>3, <1>4, PickIsSeq
<1>7. \A n \in 1 .. N : keys[n] = vw.order[Nth(P, n)]
  BY <1>3 DEF Pick
<1>8. \A n \in 1 .. N : /\ keys[n] \in DOMAIN vw.entries
                        /\ vw.entries[keys[n]].position = Nth(P, n)
  BY <1>1, <1>4, <1>7
<1>9. \A k \in DOMAIN vw.entries : \E n \in 1 .. N : keys[n] = k
  <2> SUFFICES ASSUME NEW k \in DOMAIN vw.entries
               PROVE  \E n \in 1 .. N : keys[n] = k
    OBVIOUS
  <2>1. PICK p \in P : p = vw.entries[k].position /\ vw.order[p] = k
    BY <1>1
  <2>2. PICK n \in 1 .. N : n = Cardinality(Upto(P, p))
    BY <1>1, RankBounds
  <2>3. Nth(P, n) = p
    BY <1>1, <2>2, NthOfRank
  <2> QED
    BY <1>7, <2>1, <2>3
<1>10. \A m, n \in 1 .. N :
          m < n => vw.entries[keys[m]].position < vw.entries[keys[n]].position
  BY <1>1, <1>8, NthGrows
<1> QED
  BY <1>1, <1>5, <1>6, <1>7, <1>8, <1>9, <1>10 DEF P, keys

LEMMA CompactIs ==
    ASSUME NEW vw \in SoundViews
    PROVE  /\ compact(vw) \in GoodViews /\ Left(vw, compact(vw))
           /\ DOMAIN compact(vw).entries = DOMAIN vw.entries
           /\ compact(vw).hasIndex = vw.hasIndex
<1>1. vw \in Views /\ Positioned(vw) /\ Indexed(vw)
  BY DEF SoundViews
<1>2. CASE compact(vw) = vw /\ Bounded(vw)
  <2>1. \A k \in DOMAIN vw.entries : ItemOf(k, vw.entries[k]) = ItemOf(k, vw.entries[k])
    OBVIOUS
  <2>2. Left(vw, vw)
    BY DEF Left
  <2> QED
    BY <1>2, <2>2 DEF GoodViews
<1> DEFINE keys == CurrentKeys(vw)
           D == DOMAIN vw.entries
           pos(k) == CHOOSE p \in DOMAIN keys : keys[p] = k
           entries == [k \in D |-> [vw.entries[k] EXCEPT !.position = pos(k)]]
           new == [entries |-> entries, order |-> keys, hasIndex |-> vw.hasIndex,
                   index |-> vw.index]
<1>3. CASE compact(vw) = new
  <2>1. /\ keys \in Seq(Keys) /\ Len(keys) = Cardinality(D) /\ DOMAIN keys = 1 .. Len(keys)
        /\ \A n \in DOMAIN keys : keys[n] \in D
        /\ \A k \in D : \E n \in DOMAIN keys : keys[n] = k
        /\ \A m, n \in DOMAIN keys :
              m < n => vw.entries[keys[m]].position < vw.entries[keys[n]].position
    BY CurrentKeysAre
  <2>2. Len(keys) \in Nat
    BY <2>1
  <2> HIDE DEF keys
  <2>3. \A k \in D : pos(k) \in DOMAIN keys /\ keys[pos(k)] = k /\ pos(k) \in Nat
    <3>1. \A k \in D : pos(k) \in DOMAIN keys /\ keys[pos(k)] = k
      BY <2>1
    <3> QED
      BY <2>1, <2>2, <3>1
  <2> HIDE DEF pos
  <2>4. D \in SUBSET Keys /\ \A k \in D : vw.entries[k] \in Entry
    BY <1>1, EntryFields
  <2>5. \A k \in D : /\ entries[k] \in Entry /\ entries[k].position = pos(k)
                     /\ entries[k].value = vw.entries[k].value
                     /\ entries[k].number = vw.entries[k].number
                     /\ entries[k].part = vw.entries[k].part
    BY <2>3, <2>4 DEF Entry
  <2>6. entries \in [D -> Entry]
    <3>1. \A k \in D : [vw.entries[k] EXCEPT !.position = pos(k)] \in Entry
      BY <2>5
    <3> QED
      BY <3>1
  <2>7. /\ new.entries = entries /\ new.order = keys
        /\ new.hasIndex = vw.hasIndex /\ new.index = vw.index
    OBVIOUS
  <2>8. new \in Views
    <3>1. vw.hasIndex \in BOOLEAN /\ vw.index \in [Values -> SUBSET Keys]
      BY <1>1, ViewFields
    <3> HIDE DEF entries
    <3> QED
      BY <2>1, <2>4, <2>6, <3>1, ViewBuilt
  <2>9. DOMAIN entries = D
    OBVIOUS
  <2> HIDE DEF entries, new
  <2>10. Positioned(new)
    BY <2>3, <2>5, <2>7, <2>9 DEF Positioned
  <2>11. Indexed(new)
    BY <1>1, <2>5, <2>7, <2>9 DEF Indexed
  <2>12. Bounded(new)
    BY <2>1, <2>2, <2>7, <2>9, ViewAssumption DEF Bounded
  <2>13. Left(vw, new)
    <3>1. \A k \in D : ItemOf(k, entries[k]) = ItemOf(k, vw.entries[k])
      BY <2>5 DEF ItemOf
    <3>2. \A k, l \in D : entries[k].position < entries[l].position =>
                              vw.entries[k].position < vw.entries[l].position
      BY <2>1, <2>3, <2>5
    <3> QED
      BY <2>7, <2>9, <3>1, <3>2 DEF Left
  <2> QED
    BY <1>3, <2>7, <2>8, <2>9, <2>10, <2>11, <2>12, <2>13 DEF GoodViews, SoundViews
<1>4. (compact(vw) = vw /\ Bounded(vw)) \/ compact(vw) = new
  <2>1. PICK x : x = vw.entries
    OBVIOUS
  <2>2. PICK e, o, h, i : /\ e = vw.entries /\ o = vw.order /\ h = vw.hasIndex /\ i = vw.index
                          /\ vw = [entries |-> e, order |-> o, hasIndex |-> h, index |-> i]
    BY <1>1, ViewIsRecord
  <2>3. CASE Bounded(vw)
    BY <2>3 DEF compact, Bounded
  <2>4. CASE ~Bounded(vw)
    <3>1. compact(vw) = [vw EXCEPT !.order = keys, !.entries = entries]
      BY <2>4 DEF compact, Bounded
    <3> HIDE DEF keys, entries
    <3> QED
      BY <2>2, <3>1
  <2> QED
    BY <2>3, <2>4
<1> HIDE DEF new
<1> QED
  BY <1>2, <1>3, <1>4

LEMMA DeleteIs ==
    ASSUME NEW vw \in GoodViews, NEW key, NEW event
    PROVE  \/ /\ ~Due(vw, key, event)
              /\ \E x \in Names : delete(vw, key, event) = Outcome(vw, x)
           \/ \E new \in GoodViews :
                 /\ key \in DOMAIN vw.entries /\ isNewerThan(event, vw.entries[key])
                 /\ delete(vw, key, event) = Outcome(new, "Applied")
                 /\ Left(vw, new) /\ DOMAIN new.entries = DOMAIN vw.entries \ {key}
                 /\ new.hasIndex = vw.hasIndex
<1> DEFINE D == DOMAIN vw.entries \ {key}
           entries == [k \in D |-> vw.entries[k]]
           value == vw.entries[key].value
           mid == [IndexRemove(vw, key, value) EXCEPT !.entries = entries]
           index == IndexRemoved(vw, key, value)
           built == [entries |-> entries, order |-> vw.order, hasIndex |-> vw.hasIndex,
                     index |-> index]
<1>1. \/ /\ ~Due(vw, key, event)
         /\ \E x \in Names : delete(vw, key, event) = Outcome(vw, x)
      \/ /\ IsFound(vw, key) /\ isNewerThan(event, vw.entries[key])
         /\ delete(vw, key, event) = Outcome(compact(mid), "Applied")
  <2> HIDE DEF mid
  <2>1. CASE ~IsFound(vw, key)
    BY <2>1 DEF delete, Names, Due, IsFound
  <2>2. CASE IsFound(vw, key) /\ ~isNewerThan(event, vw.entries[key])
    BY <2>2 DEF delete, Names, Due, IsFound
  <2>3. CASE IsFound(vw, key) /\ isNewerThan(event, vw.entries[key])
    BY <2>3 DEF delete, mid
  <2> QED
    BY <2>1, <2>2, <2>3
<1> SUFFICES ASSUME IsFound(vw, key), isNewerThan(event, vw.entries[key]),
                    delete(vw, key, event) = Outcome(compact(mid), "Applied")
             PROVE  /\ compact(mid) \in GoodViews /\ Left(vw, compact(mid))
                    /\ DOMAIN compact(mid).entries = D
                    /\ compact(mid).hasIndex = vw.hasIndex
  <2> HIDE DEF mid
  <2> QED
    BY <1>1 DEF IsFound
<1>2. key \in DOMAIN vw.entries
  BY DEF IsFound
<1>3. vw \in Views /\ Positioned(vw) /\ Indexed(vw)
  BY DEF GoodViews, SoundViews
<1>4. /\ DOMAIN vw.entries \in SUBSET Keys
      /\ vw.entries \in [DOMAIN vw.entries -> Entry]
      /\ vw.order \in Seq(Keys)
      /\ vw.hasIndex \in BOOLEAN
      /\ vw.index \in [Values -> SUBSET Keys]
  BY <1>3, ViewFields
<1>5. mid = built
  <2>1. PICK x : x = value
    OBVIOUS
  <2>2. PICK e, o, h, i : /\ e = vw.entries /\ o = vw.order /\ h = vw.hasIndex /\ i = vw.index
                          /\ vw = [entries |-> e, order |-> o, hasIndex |-> h, index |-> i]
    BY <1>3, ViewIsRecord
  <2> DEFINE idx == IF h THEN [i EXCEPT ![x] = @ \ {key}] ELSE i
  <2>3. IndexRemove(vw, key, value) = [entries |-> e, order |-> o, hasIndex |-> h, index |-> idx]
    BY <2>1, <2>2 DEF IndexRemove
  <2>4. index = idx
    BY <2>1, <2>2 DEF IndexRemoved
  <2> HIDE DEF idx, index, entries
  <2> QED
    BY <2>2, <2>3, <2>4
<1>6. /\ built.entries = entries /\ built.order = vw.order
      /\ built.hasIndex = vw.hasIndex /\ built.index = index
  OBVIOUS
<1>7. DOMAIN entries = D /\ \A k \in D : entries[k] = vw.entries[k]
  OBVIOUS
<1>8. built \in Views
  <2>1. entries \in [D -> Entry] /\ D \in SUBSET Keys
    BY <1>4
  <2>2. index \in [Values -> SUBSET Keys]
    BY <1>4 DEF IndexRemoved
  <2> HIDE DEF entries, index, D
  <2> QED
    BY <1>4, <2>1, <2>2, ViewBuilt
<1> HIDE DEF built, mid, entries
<1>9. Positioned(built)
  BY <1>3, <1>6, <1>7 DEF Positioned
<1>10. Indexed(built)
  <2> HIDE DEF index
  <2> SUFFICES ASSUME vw.hasIndex, NEW u \in Values
               PROVE  index[u] = {k \in D : entries[k].value = u}
    BY <1>6, <1>7 DEF Indexed
  <2>1. vw.index[u] = {k \in DOMAIN vw.entries : vw.entries[k].value = u}
    BY <1>3 DEF Indexed
  <2>2. index[u] = IF u = value THEN vw.index[u] \ {key} ELSE vw.index[u]
    BY <1>4 DEF IndexRemoved, index
  <2> QED
    BY <1>7, <2>1, <2>2
<1>11. built \in SoundViews
  BY <1>8, <1>9, <1>10 DEF SoundViews
<1>12. Left(vw, built)
  BY <1>6, <1>7 DEF Left
<1>13. /\ compact(mid) \in GoodViews /\ Left(built, compact(mid))
       /\ DOMAIN compact(mid).entries = DOMAIN built.entries
       /\ compact(mid).hasIndex = built.hasIndex
  BY <1>5, <1>11, CompactIs
<1>14. Left(vw, compact(mid))
  BY <1>12, <1>13, LeftOfLeft
<1> QED
  BY <1>6, <1>7, <1>13, <1>14

LEMMA IndexIs ==
    ASSUME NEW vw \in GoodViews
    PROVE  /\ Index(vw) \in GoodViews
           /\ Index(vw).entries = vw.entries /\ Index(vw).order = vw.order
<1> DEFINE index == [u \in Values |->
                        {k \in DOMAIN vw.entries :
                            /\ vw.entries[k].value = u
                            /\ \E p \in DOMAIN vw.order : vw.order[p] = k}]
           new == [entries |-> vw.entries, order |-> vw.order, hasIndex |-> TRUE,
                   index |-> index]
<1>1. vw \in Views /\ Positioned(vw) /\ Bounded(vw)
  BY DEF GoodViews, SoundViews
<1>2. /\ DOMAIN vw.entries \in SUBSET Keys
      /\ vw.entries \in [DOMAIN vw.entries -> Entry]
      /\ vw.order \in Seq(Keys)
  BY <1>1, ViewFields
<1>3. Index(vw) = new
  <2>1. Index(vw) = [vw EXCEPT !.hasIndex = TRUE, !.index = index]
    BY DEF Index
  <2>2. PICK e, o, h, i : /\ e = vw.entries /\ o = vw.order /\ h = vw.hasIndex /\ i = vw.index
                          /\ vw = [entries |-> e, order |-> o, hasIndex |-> h, index |-> i]
    BY <1>1, ViewIsRecord
  <2> HIDE DEF index
  <2> QED
    BY <2>1, <2>2
<1>4. index \in [Values -> SUBSET Keys]
  BY <1>2
<1>5. \A u \in Values : index[u] = {k \in DOMAIN vw.entries : vw.entries[k].value = u}
  BY <1>1 DEF Positioned
<1> HIDE DEF index
<1>6. /\ new.entries = vw.entries /\ new.order = vw.order /\ new.index = index
  OBVIOUS
<1>7. new \in Views
  BY <1>2, <1>4, ViewBuilt
<1> HIDE DEF new
<1>8. Positioned(new) /\ Indexed(new) /\ Bounded(new)
  BY <1>1, <1>5, <1>6 DEF Positioned, Indexed, Bounded
<1> QED
  BY <1>3, <1>6, <1>7, <1>8 DEF GoodViews, SoundViews

-----------------------------------------------------------------------------
(***************************************************************************)
(* What a call does to the view.                                           *)
(***************************************************************************)

\* One item has been added.
Grown(vw, new) ==
    \E key \in Keys \ DOMAIN vw.entries :
        /\ DOMAIN new.entries = DOMAIN vw.entries \cup {key}
        /\ new.order = Append(vw.order, key)
        /\ \A k \in DOMAIN vw.entries : new.entries[k] = vw.entries[k]
        /\ new.entries[key].position = Len(vw.order) + 1

\* Items have been changed in their places, for one event and to one value.
Altered(vw, event, value, new) ==
    /\ DOMAIN new.entries = DOMAIN vw.entries
    /\ new.order = vw.order
    /\ \A k \in DOMAIN vw.entries :
          \/ new.entries[k] = vw.entries[k]
          \/ /\ isNewerThan(event, vw.entries[k])
             /\ new.entries[k] = [vw.entries[k] EXCEPT !.value = value, !.number = event.number,
                                                       !.part = event.part]

Moved(vw, new) ==
    \/ Grown(vw, new)
    \/ \E event \in Events, value \in Values : Altered(vw, event, value, new)
    \/ Left(vw, new)

Results == {Outcome(vw, x) : vw \in GoodViews, x \in Names}

LEMMA ResultIs ==
    ASSUME NEW vw \in GoodViews, NEW x \in Names
    PROVE  Outcome(vw, x) \in Results /\ Outcome(vw, x).view = vw /\ Outcome(vw, x).outcome = x
BY DEF Results, Outcome

LEMMA ResultsAre ==
    ASSUME NEW o \in Results
    PROVE  o.view \in GoodViews
BY DEF Results, Outcome

LEMMA PickHasLength ==
    ASSUME NEW seq, NEW P, Cardinality(P) \in Nat
    PROVE  Len(Pick(seq, P)) \in Nat
<1> DEFINE S == {seq[Nth(P, n)] : n \in 1 .. Cardinality(P)}
<1>1. \A n \in 1 .. Cardinality(P) : seq[Nth(P, n)] \in S
  OBVIOUS
<1> HIDE DEF S
<1> QED
  BY <1>1, PickIsSeq

LEMMA KeysHaveLength ==
    ASSUME NEW vw \in GoodViews, NEW value \in Values
    PROVE  /\ Len(keysWhere(vw, value)) \in Nat
           /\ vw.hasIndex => Len(keysOf(vw, value)) \in Nat
<1>1. vw \in SoundViews
  BY DEF GoodViews
<1>2. Len(keysWhere(vw, value)) \in Nat
  <2> DEFINE P == CurrentPositions(vw)
             Q == {p \in P : vw.entries[vw.order[p]].value = value}
  <2>1. IsFiniteSet(P)
    BY <1>1, CurrentPositionsAre
  <2>2. IsFiniteSet(Q)
    BY <2>1, FS_Subset
  <2>3. Cardinality(Q) \in Nat
    BY <2>2, FS_CardinalityType
  <2>4. keysWhere(vw, value) = Pick(vw.order, Q)
    BY DEF keysWhere
  <2> HIDE DEF Q
  <2> QED
    BY <2>3, <2>4, PickHasLength
<1>3. ASSUME vw.hasIndex
      PROVE  Len(keysOf(vw, value)) \in Nat
  <2> DEFINE K == vw.index[value]
             P == PositionsOf(vw, K)
             f == [n \in 1 .. Cardinality(P) |-> KeyAt(vw, K, Nth(P, n))]
             S == {KeyAt(vw, K, Nth(P, n)) : n \in 1 .. Cardinality(P)}
  <2>1. K \in SUBSET DOMAIN vw.entries
    BY <1>1, <1>3 DEF SoundViews, Indexed
  <2>2. IsFiniteSet(P)
    BY <1>1, <2>1, PositionsAre
  <2>3. keysOf(vw, value) = f
    BY DEF keysOf
  <2> HIDE DEF P
  <2>4. Cardinality(P) \in Nat
    BY <2>2, FS_CardinalityType
  <2>5. f \in [1 .. Cardinality(P) -> S]
    OBVIOUS
  <2> HIDE DEF f, S
  <2>6. Len(f) \in Nat
    <3>1. PICK N \in Nat : N = Cardinality(P)
      BY <2>4
    <3>2. f \in Seq(S)
      BY <2>5, <3>1
    <3> QED
      BY <3>2
  <2> QED
    BY <2>3, <2>6
<1> QED
  BY <1>2, <1>3

\* Items of other keys are as they were.
Untouched(vw, keys, new) ==
    \A k \in DOMAIN vw.entries :
        (\A n \in 1 .. Len(keys) : keys[n] # k) => new.entries[k] = vw.entries[k]

LEMMA ChangeAllIs ==
    ASSUME NEW vw \in GoodViews, NEW keys, Len(keys) \in Nat, NEW event \in Events,
           NEW value \in Values, NEW brokenKey
    PROVE  LET o == changeAll(vw, keys, event, value, brokenKey)
           IN  /\ o \in Results /\ Altered(vw, event, value, o.view)
               /\ o.view.hasIndex = vw.hasIndex
               /\ Untouched(vw, keys, o.view)
               /\ o.outcome # "error" => \A n \in 1 .. Len(keys) : ~Due(o.view, keys[n], event)
<1> DEFINE V == {o \in Results : /\ Altered(vw, event, value, o.view)
                                 /\ o.view.hasIndex = vw.hasIndex
                                 /\ Untouched(vw, keys, o.view)}
<1>1. Outcome(vw, "Applied") \in V
  <2>1. "Applied" \in Names
    BY DEF Names
  <2>2. Outcome(vw, "Applied") \in Results /\ Outcome(vw, "Applied").view = vw
    BY <2>1, ResultIs
  <2>3. Altered(vw, event, value, vw) /\ Untouched(vw, keys, vw)
    BY DEF Altered, Untouched
  <2> QED
    BY <2>2, <2>3
<1>2. ASSUME NEW o \in V, NEW n \in 1 .. Len(keys)
      PROVE  change(o.view, keys[n], event, value, keys[n] = brokenKey) \in V
  <2> DEFINE key == keys[n]
             isBroken == keys[n] = brokenKey
             mid == o.view
             c == change(mid, key, event, value, isBroken)
  <2>1. /\ mid \in GoodViews /\ Altered(vw, event, value, mid) /\ mid.hasIndex = vw.hasIndex
        /\ Untouched(vw, keys, mid) /\ key = keys[n]
    BY <1>2, ResultsAre
  <2> HIDE DEF key, isBroken, mid
  <2>2. ChangeMade(mid, key, event, value, c)
    BY <2>1, ChangeIs
  <2>3. CASE \E x \in Names : c = Outcome(mid, x)
    <3>1. PICK x \in Names : c = Outcome(mid, x)
      BY <2>3
    <3>2. c \in Results /\ c.view = mid
      BY <2>1, <3>1, ResultIs
    <3> HIDE DEF c
    <3>3. c \in V
      BY <2>1, <3>2
    <3> QED
      BY <3>3 DEF c, key, isBroken, mid
  <2>4. CASE \E new : ChangedTo(mid, key, event, value, new) /\ c = Outcome(new, "Applied")
    <3>1. PICK new : ChangedTo(mid, key, event, value, new) /\ c = Outcome(new, "Applied")
      BY <2>4
    <3>2. new \in GoodViews /\ "Applied" \in Names
      BY <3>1 DEF ChangedTo, Names
    <3>3. c \in Results /\ c.view = new
      BY <3>1, <3>2, ResultIs
    <3>4. /\ key \in DOMAIN mid.entries /\ isNewerThan(event, mid.entries[key])
          /\ DOMAIN new.entries = DOMAIN mid.entries
          /\ new.order = mid.order /\ new.hasIndex = mid.hasIndex
          /\ \A k \in DOMAIN mid.entries \ {key} : new.entries[k] = mid.entries[k]
          /\ new.entries[key] = [mid.entries[key] EXCEPT
                !.value = value, !.number = event.number, !.part = event.part]
      BY <3>1 DEF ChangedTo
    <3>5. /\ DOMAIN mid.entries = DOMAIN vw.entries
          /\ mid.order = vw.order
          /\ \A k \in DOMAIN vw.entries :
                \/ mid.entries[k] = vw.entries[k]
                \/ /\ isNewerThan(event, vw.entries[k])
                   /\ mid.entries[k] = [vw.entries[k] EXCEPT
                        !.value = value, !.number = event.number, !.part = event.part]
      BY <2>1 DEF Altered
    <3>6. mid.entries[key] = vw.entries[key]
      <4>1. SUFFICES ASSUME mid.entries[key] = [vw.entries[key] EXCEPT
                        !.value = value, !.number = event.number, !.part = event.part]
                     PROVE  FALSE
        BY <3>4, <3>5
      <4>2. vw.entries[key] \in Entry
        <5>1. vw \in Views /\ key \in DOMAIN vw.entries
          BY <3>4, <3>5 DEF GoodViews, SoundViews
        <5> QED
          BY <5>1, EntryFields
      <4>3. mid.entries[key].number = event.number /\ mid.entries[key].part = event.part
        BY <4>1, <4>2 DEF Entry
      <4>4. event.number \in Nat /\ event.part \in Nat
        BY DEF Events
      <4> QED
        BY <3>4, <4>3, <4>4 DEF isNewerThan
    <3>7. Altered(vw, event, value, new)
      BY <3>4, <3>5, <3>6 DEF Altered
    <3>8. Untouched(vw, keys, new)
      BY <2>1, <3>4, <3>5 DEF Untouched
    <3> HIDE DEF c
    <3>9. c \in V
      BY <2>1, <3>3, <3>4, <3>7, <3>8
    <3> QED
      BY <3>9 DEF c, key, isBroken, mid
  <2> HIDE DEF c
  <2> QED
    BY <2>2, <2>3, <2>4 DEF ChangeMade
<1> HIDE DEF V
<1>3. PICK r : /\ r[0] = Outcome(vw, "Applied")
               /\ changeAll(vw, keys, event, value, brokenKey) = r[Len(keys)]
               /\ \A n \in 0 .. Len(keys) : r[n] \in V
               /\ \A n \in 1 .. Len(keys) :
                     r[n] = IF r[n - 1].outcome = "error" THEN r[n - 1]
                            ELSE change(r[n - 1].view, keys[n], event, value, keys[n] = brokenKey)
  BY <1>1, <1>2, ChangeAllIsLoop
<1> DEFINE S == {n \in Nat : n <= Len(keys) /\ r[n].outcome # "error" =>
                                \A m \in 1 .. n : ~Due(r[n].view, keys[m], event)}
<1>4. 0 \in S
  OBVIOUS
<1>5. ASSUME NEW n \in Nat, n \in S
      PROVE  n + 1 \in S
  <2> SUFFICES ASSUME n + 1 <= Len(keys), r[n + 1].outcome # "error"
               PROVE  \A m \in 1 .. n + 1 : ~Due(r[n + 1].view, keys[m], event)
    OBVIOUS
  <2> DEFINE key == keys[n + 1]
             isBroken == keys[n + 1] = brokenKey
             mid == r[n].view
             c == change(mid, key, event, value, isBroken)
  <2>1. n \in 0 .. Len(keys) /\ n + 1 \in 1 .. Len(keys) /\ (n + 1) - 1 = n
    OBVIOUS
  <2>2. r[n].outcome # "error" /\ r[n + 1] = c /\ r[n] \in V
    BY <1>3, <2>1
  <2>3. \A m \in 1 .. n : ~Due(mid, keys[m], event)
    BY <1>5, <2>1, <2>2
  <2>4. mid \in GoodViews
    BY <2>2, ResultsAre DEF V
  <2> HIDE DEF isBroken, mid
  <2>5. ChangeMade(mid, key, event, value, c)
    BY <2>4, ChangeIs
  <2> HIDE DEF c
  <2>6. \A m \in 1 .. n + 1 : m \in 1 .. n \/ keys[m] = key
    OBVIOUS
  <2> HIDE DEF key
  <2>7. CASE \E x \in Names : c = Outcome(mid, x) /\ (x = "error" \/ ~Due(mid, key, event))
    BY <2>2, <2>3, <2>6, <2>7 DEF Outcome
  <2>8. CASE \E new : ChangedTo(mid, key, event, value, new) /\ c = Outcome(new, "Applied")
    <3>1. PICK new : ChangedTo(mid, key, event, value, new) /\ c = Outcome(new, "Applied")
      BY <2>8
    <3>2. r[n + 1].view = new
      BY <2>2, <3>1 DEF Outcome
    <3>3. /\ DOMAIN new.entries = DOMAIN mid.entries /\ key \in DOMAIN mid.entries
          /\ \A k \in DOMAIN mid.entries \ {key} : new.entries[k] = mid.entries[k]
          /\ new.entries[key] = [mid.entries[key] EXCEPT
                !.value = value, !.number = event.number, !.part = event.part]
      BY <3>1 DEF ChangedTo
    <3>4. mid.entries[key] \in Entry
      <4>1. mid \in Views
        BY <2>4 DEF GoodViews, SoundViews
      <4> QED
        BY <3>3, <4>1, EntryFields
    <3>5. ~Due(new, key, event)
      <4>1. new.entries[key].number = event.number /\ new.entries[key].part = event.part
        BY <3>3, <3>4 DEF Entry
      <4>2. event.number \in Nat /\ event.part \in Nat
        BY DEF Events
      <4> QED
        BY <4>1, <4>2 DEF Due, isNewerThan
    <3>6. \A k : k # key /\ ~Due(mid, k, event) => ~Due(new, k, event)
      BY <3>3 DEF Due
    <3> QED
      BY <2>3, <2>6, <3>2, <3>5, <3>6
  <2> QED
    BY <2>5, <2>7, <2>8 DEF ChangeMade
<1>6. Len(keys) \in S
  <2> HIDE DEF S
  <2> QED
    BY <1>4, <1>5, Induct
<1>7. r[Len(keys)] \in V
  BY <1>3
<1> QED
  BY <1>3, <1>6, <1>7 DEF V

\* What is missing has been among the keys, and the event newer.
Dropped(vw, keys, event, new) ==
    \A k \in DOMAIN vw.entries \ DOMAIN new.entries :
        Due(vw, k, event) /\ \E n \in 1 .. Len(keys) : keys[n] = k

LEMMA DueIfLeft ==
    ASSUME NEW vw, NEW new, Left(vw, new), NEW k \in DOMAIN new.entries, NEW event
    PROVE  Due(new, k, event) <=> Due(vw, k, event)
<1>1. /\ k \in DOMAIN vw.entries
      /\ ItemOf(k, new.entries[k]) = ItemOf(k, vw.entries[k])
  BY DEF Left
<1>2. /\ new.entries[k].number = vw.entries[k].number
      /\ new.entries[k].part = vw.entries[k].part
  BY <1>1 DEF ItemOf
<1> QED
  BY <1>1, <1>2 DEF Due, isNewerThan

LEMMA DeleteAllIs ==
    ASSUME NEW vw \in GoodViews, NEW keys, Len(keys) \in Nat, NEW event
    PROVE  LET o == deleteAll(vw, keys, event)
           IN  /\ o \in Results /\ Left(vw, o.view) /\ o.view.hasIndex = vw.hasIndex
               /\ Dropped(vw, keys, event, o.view)
               /\ \A n \in 1 .. Len(keys) : ~Due(o.view, keys[n], event)
<1> DEFINE V == {o \in Results : /\ Left(vw, o.view) /\ o.view.hasIndex = vw.hasIndex
                                 /\ Dropped(vw, keys, event, o.view)}
<1>1. Outcome(vw, "Applied") \in V
  <2>1. "Applied" \in Names
    BY DEF Names
  <2>2. Outcome(vw, "Applied") \in Results /\ Outcome(vw, "Applied").view = vw
    BY <2>1, ResultIs
  <2>3. Left(vw, vw) /\ Dropped(vw, keys, event, vw)
    BY DEF Left, Dropped
  <2> QED
    BY <2>2, <2>3
<1>2. ASSUME NEW mid \in GoodViews, NEW key
      PROVE  \E new \in GoodViews, x \in Names :
                /\ delete(mid, key, event) = Outcome(new, x)
                /\ Left(mid, new) /\ new.hasIndex = mid.hasIndex
                /\ \A k \in DOMAIN mid.entries \ DOMAIN new.entries : k = key /\ Due(mid, k, event)
                /\ ~Due(new, key, event)
  <2>1. CASE /\ ~Due(mid, key, event)
             /\ \E x \in Names : delete(mid, key, event) = Outcome(mid, x)
    <3>1. Left(mid, mid)
      BY DEF Left
    <3> QED
      BY <2>1, <3>1
  <2>2. CASE \E new \in GoodViews :
                /\ key \in DOMAIN mid.entries /\ isNewerThan(event, mid.entries[key])
                /\ delete(mid, key, event) = Outcome(new, "Applied")
                /\ Left(mid, new) /\ DOMAIN new.entries = DOMAIN mid.entries \ {key}
                /\ new.hasIndex = mid.hasIndex
    <3>1. "Applied" \in Names
      BY DEF Names
    <3> QED
      BY <2>2, <3>1 DEF Due
  <2> QED
    BY <2>1, <2>2, DeleteIs
<1>3. ASSUME NEW o \in V, NEW n \in 1 .. Len(keys)
      PROVE  delete(o.view, keys[n], event) \in V
  <2> DEFINE key == keys[n]
             mid == o.view
             d == delete(mid, key, event)
  <2>1. /\ mid \in GoodViews /\ Left(vw, mid) /\ mid.hasIndex = vw.hasIndex
        /\ Dropped(vw, keys, event, mid) /\ key = keys[n]
    BY <1>3, ResultsAre
  <2> HIDE DEF key, mid
  <2>2. PICK new \in GoodViews, x \in Names :
            /\ d = Outcome(new, x) /\ Left(mid, new) /\ new.hasIndex = mid.hasIndex
            /\ \A k \in DOMAIN mid.entries \ DOMAIN new.entries : k = key /\ Due(mid, k, event)
    BY <1>2, <2>1
  <2>3. d \in Results /\ d.view = new
    BY <2>2, ResultIs
  <2>4. Left(vw, new)
    BY <2>1, <2>2, LeftOfLeft
  <2>5. Dropped(vw, keys, event, new)
    <3> SUFFICES ASSUME NEW k \in DOMAIN vw.entries \ DOMAIN new.entries, k \in DOMAIN mid.entries
                 PROVE  Due(vw, k, event) /\ \E m \in 1 .. Len(keys) : keys[m] = k
      BY <2>1 DEF Dropped
    <3>1. k = key /\ Due(mid, k, event)
      BY <2>2
    <3>2. Due(vw, k, event)
      BY <2>1, <3>1, DueIfLeft
    <3> QED
      BY <2>1, <3>1, <3>2
  <2> HIDE DEF d
  <2>6. d \in V
    BY <2>1, <2>2, <2>3, <2>4, <2>5
  <2> QED
    BY <2>6 DEF d, key, mid
<1> HIDE DEF V
<1>4. PICK r : /\ r[0] = Outcome(vw, "Applied") /\ deleteAll(vw, keys, event) = r[Len(keys)]
               /\ \A n \in 0 .. Len(keys) : r[n] \in V
               /\ \A n \in 1 .. Len(keys) : r[n] = delete(r[n - 1].view, keys[n], event)
  BY <1>1, <1>3, DeleteAllIsLoop
<1> DEFINE S == {n \in Nat : n <= Len(keys) => \A m \in 1 .. n : ~Due(r[n].view, keys[m], event)}
<1>5. 0 \in S
  OBVIOUS
<1>6. ASSUME NEW n \in Nat, n \in S
      PROVE  n + 1 \in S
  <2> SUFFICES ASSUME n + 1 <= Len(keys)
               PROVE  \A m \in 1 .. n + 1 : ~Due(r[n + 1].view, keys[m], event)
    OBVIOUS
  <2> DEFINE key == keys[n + 1]
             mid == r[n].view
  <2>1. n \in 0 .. Len(keys) /\ n + 1 \in 1 .. Len(keys) /\ (n + 1) - 1 = n
    OBVIOUS
  <2>2. r[n + 1] = delete(mid, key, event) /\ r[n] \in V
    BY <1>4, <2>1
  <2>3. \A m \in 1 .. n : ~Due(mid, keys[m], event)
    BY <1>6, <2>1
  <2>4. mid \in GoodViews
    BY <2>2, ResultsAre DEF V
  <2>5. \A m \in 1 .. n + 1 : m \in 1 .. n \/ keys[m] = key
    OBVIOUS
  <2> HIDE DEF mid, key
  <2>6. PICK new \in GoodViews, x \in Names :
            /\ delete(mid, key, event) = Outcome(new, x) /\ Left(mid, new)
            /\ ~Due(new, key, event)
    BY <1>2, <2>4
  <2>7. r[n + 1].view = new
    BY <2>2, <2>6 DEF Outcome
  <2>8. \A k : ~Due(mid, k, event) => ~Due(new, k, event)
    <3> SUFFICES ASSUME NEW k, Due(new, k, event)
                 PROVE  Due(mid, k, event)
      OBVIOUS
    <3>1. k \in DOMAIN new.entries
      BY DEF Due
    <3> QED
      BY <2>6, <3>1, DueIfLeft
  <2> QED
    BY <2>3, <2>5, <2>6, <2>7, <2>8
<1>7. Len(keys) \in S
  <2> HIDE DEF S
  <2> QED
    BY <1>5, <1>6, Induct
<1>8. r[Len(keys)] \in V
  BY <1>4
<1> QED
  BY <1>4, <1>7, <1>8 DEF V

LEMMA CallFields ==
    ASSUME NEW call \in Calls
    PROVE  /\ call.kind \in {"Insert", "Upsert", "Update", "Delete", "UpdateWhere",
                             "DeleteWhere", "IndexUpdate", "IndexDelete"}
           /\ call.kind \in {"Insert", "Upsert", "Update"} =>
                 call.key \in Keys /\ call.value \in Values
           /\ call.kind \in {"UpdateWhere", "IndexUpdate"} =>
                 call.match \in Values /\ call.value \in Values
           /\ call.kind \in {"DeleteWhere", "IndexDelete"} => call.match \in Values
<1>1. CASE call \in [kind : {"Insert"}, key : Keys, value : Values]
  BY <1>1
<1>2. CASE call \in Changes
  BY <1>2 DEF Changes
<1>3. CASE call \in [kind : {"Delete"}, key : Keys]
  BY <1>3
<1>4. CASE call \in GroupChanges
  BY <1>4 DEF GroupChanges
<1>5. CASE call \in [kind : {"DeleteWhere", "IndexDelete"}, match : Values]
  BY <1>5
<1> QED
  BY <1>1, <1>2, <1>3, <1>4, <1>5 DEF Calls

\* A result that a call may have, as what it is and what it does to the view.
Fits(vw, o) == o \in Results /\ Moved(vw, o.view) /\ o.view.hasIndex = vw.hasIndex

LEMMA NothingFits ==
    ASSUME NEW vw \in GoodViews, NEW x \in Names
    PROVE  Fits(vw, Outcome(vw, x))
<1>1. Left(vw, vw)
  BY DEF Left
<1> QED
  BY <1>1, ResultIs DEF Fits, Moved

LEMMA AddFits ==
    ASSUME NEW vw \in GoodViews, NEW key \in Keys \ DOMAIN vw.entries, NEW value \in Values,
           NEW event \in Events
    PROVE  Fits(vw, Outcome(add(vw, key, value, event), "Added"))
<1>1. PICK new : new = add(vw, key, value, event)
  OBVIOUS
<1>2. /\ new \in GoodViews
      /\ DOMAIN new.entries = DOMAIN vw.entries \cup {key}
      /\ new.order = Append(vw.order, key)
      /\ new.hasIndex = vw.hasIndex
      /\ \A k \in DOMAIN vw.entries : new.entries[k] = vw.entries[k]
      /\ new.entries[key] = [value |-> value, number |-> event.number,
                             part |-> event.part, position |-> Len(vw.order) + 1]
  BY <1>1, AddIs
<1>3. new.entries[key].position = Len(vw.order) + 1
  BY <1>2
<1>4. Grown(vw, new)
  BY <1>2, <1>3 DEF Grown
<1>5. "Added" \in Names
  BY DEF Names
<1>6. Outcome(new, "Added") \in Results /\ Outcome(new, "Added").view = new
  BY <1>2, <1>5, ResultIs
<1> QED
  BY <1>1, <1>2, <1>4, <1>6 DEF Fits, Moved

LEMMA ChangeFits ==
    ASSUME NEW vw \in GoodViews, NEW key, NEW event \in Events, NEW value \in Values,
           NEW isBroken
    PROVE  Fits(vw, change(vw, key, event, value, isBroken))
<1> DEFINE c == change(vw, key, event, value, isBroken)
<1>1. ChangeMade(vw, key, event, value, c)
  BY ChangeIs
<1> HIDE DEF c
<1>2. CASE \E x \in Names : c = Outcome(vw, x)
  BY <1>2, NothingFits DEF c
<1>3. CASE \E new : ChangedTo(vw, key, event, value, new) /\ c = Outcome(new, "Applied")
  <2>1. PICK new : ChangedTo(vw, key, event, value, new) /\ c = Outcome(new, "Applied")
    BY <1>3
  <2>2. new \in GoodViews /\ "Applied" \in Names /\ new.hasIndex = vw.hasIndex
    BY <2>1 DEF ChangedTo, Names
  <2>3. Altered(vw, event, value, new)
    BY <2>1 DEF ChangedTo, Altered
  <2>4. c \in Results /\ c.view = new
    BY <2>1, <2>2, ResultIs
  <2> QED
    BY <2>2, <2>3, <2>4 DEF Fits, Moved, c
<1> QED
  BY <1>1, <1>2, <1>3 DEF ChangeMade, c

LEMMA CalledFits ==
    ASSUME view \in GoodViews, NEW call \in Calls, NEW event \in Events,
           NeedsIndex(call) => view.hasIndex
    PROVE  Fits(view, Called(call, event))
<1> DEFINE c == Called(call, event)
<1>1. \A x \in Names : Fits(view, Outcome(view, x))
  BY NothingFits
<1>2. "AlreadyApplied" \in Names /\ "error" \in Names /\ "Applied" \in Names
  BY DEF Names
<1>3. CASE call.kind = "Insert"
  <2>1. call.key \in Keys /\ call.value \in Values
    BY <1>3, CallFields
  <2>2. c = Insert(view, event, call.key, call.value)
    BY <1>3 DEF Called
  <2>3. CASE ~IsFound(view, call.key)
    <3>1. c = Outcome(add(view, call.key, call.value, event), "Added")
      BY <2>2, <2>3 DEF Insert
    <3>2. call.key \in Keys \ DOMAIN view.entries
      BY <2>1, <2>3 DEF IsFound
    <3> HIDE DEF c
    <3>3. Fits(view, c)
      BY <2>1, <3>1, <3>2, AddFits
    <3> QED
      BY <3>3 DEF c
  <2>4. CASE IsFound(view, call.key)
    <3>1. c = Outcome(view, "error") \/ c = Outcome(view, "AlreadyApplied")
      BY <2>2, <2>4 DEF Insert
    <3> QED
      BY <1>1, <1>2, <3>1
  <2> QED
    BY <2>3, <2>4
<1>4. CASE call.kind = "Upsert"
  <2>1. call.key \in Keys /\ call.value \in Values
    BY <1>4, CallFields
  <2>2. c = Upsert(view, call.key, event, call.value, call.broken # None)
    BY <1>4 DEF Called
  <2>3. CASE IsFound(view, call.key)
    <3>1. c = change(view, call.key, event, call.value, call.broken # None)
      BY <2>2, <2>3 DEF Upsert
    <3> QED
      BY <2>1, <3>1, ChangeFits
  <2>4. CASE ~IsFound(view, call.key)
    <3>1. \/ c = Outcome(view, "error")
          \/ c = Outcome(add(view, call.key, call.value, event), "Added")
      BY <2>2, <2>4 DEF Upsert
    <3>2. call.key \in Keys \ DOMAIN view.entries
      BY <2>1, <2>4 DEF IsFound
    <3>3. Fits(view, Outcome(add(view, call.key, call.value, event), "Added"))
      BY <2>1, <3>2, AddFits
    <3> QED
      BY <1>1, <1>2, <3>1, <3>3
  <2> QED
    BY <2>3, <2>4
<1>5. CASE call.kind = "Update"
  <2>1. call.value \in Values
    BY <1>5, CallFields
  <2>2. c = change(view, call.key, event, call.value, call.broken # None)
    BY <1>5 DEF Called
  <2> QED
    BY <2>1, <2>2, ChangeFits
<1>6. CASE call.kind = "Delete"
  <2>1. c = delete(view, call.key, event)
    BY <1>6 DEF Called
  <2>2. \/ \E x \in Names : c = Outcome(view, x)
        \/ \E new \in GoodViews : /\ c = Outcome(new, "Applied")
                                  /\ Left(view, new) /\ new.hasIndex = view.hasIndex
    BY <2>1, DeleteIs
  <2>3. \A new \in GoodViews : /\ Outcome(new, "Applied") \in Results
                               /\ Outcome(new, "Applied").view = new
    BY <1>2, ResultIs
  <2> QED
    BY <1>1, <2>2, <2>3 DEF Fits, Moved
<1>7. CASE call.kind \in {"UpdateWhere", "IndexUpdate"}
  <2>1. call.match \in Values /\ call.value \in Values
    BY <1>7, CallFields
  <2>2. call.kind = "IndexUpdate" => view.hasIndex
    BY DEF NeedsIndex
  <2>3. PICK keys : /\ c = changeAll(view, keys, event, call.value, call.broken)
                    /\ Len(keys) \in Nat
    BY <1>7, <2>1, <2>2, KeysHaveLength DEF Called, UpdateWhere, IndexUpdate
  <2>4. /\ c \in Results /\ Altered(view, event, call.value, c.view)
        /\ c.view.hasIndex = view.hasIndex
    BY <2>1, <2>3, ChangeAllIs
  <2> QED
    BY <2>1, <2>4 DEF Fits, Moved
<1>8. CASE call.kind \in {"DeleteWhere", "IndexDelete"}
  <2>1. call.match \in Values
    BY <1>8, CallFields
  <2>2. call.kind = "IndexDelete" => view.hasIndex
    BY DEF NeedsIndex
  <2>3. PICK keys : c = deleteAll(view, keys, event) /\ Len(keys) \in Nat
    BY <1>8, <2>1, <2>2, KeysHaveLength DEF Called, DeleteWhere, IndexDelete
  <2>4. c \in Results /\ Left(view, c.view) /\ c.view.hasIndex = view.hasIndex
    BY <2>3, DeleteAllIs
  <2> QED
    BY <2>4 DEF Fits, Moved
<1> QED
  BY <1>3, <1>4, <1>5, <1>6, <1>7, <1>8, CallFields

LEMMA TakeMoves ==
    ASSUME ViewInv, NEW call \in Calls, NEW part \in Nat, NeedsIndex(call) => view.hasIndex,
           pc = "applying", Take(call, part)
    PROVE  /\ view' \in GoodViews /\ Moved(view, view') /\ view'.hasIndex = view.hasIndex
           /\ pc' \in {"applying", "stopped"} /\ next' \in Nat \ {0}
<1> DEFINE event == [number |-> number, part |-> part]
           c == Called(call, event)
<1>1. view \in GoodViews /\ number \in Nat /\ next \in Nat \ {0}
  BY DEF ViewInv
<1>2. event \in Events
  BY <1>1 DEF Events
<1>3. view' = c.view /\ pc' \in {"applying", "stopped"} /\ next' = next + 1
  BY DEF Take
<1> HIDE DEF event
<1>4. Fits(view, c)
  BY <1>1, <1>2, CalledFits
<1> HIDE DEF c
<1>5. c.view \in GoodViews /\ Moved(view, c.view) /\ c.view.hasIndex = view.hasIndex
  BY <1>4, ResultsAre DEF Fits
<1> QED
  BY <1>1, <1>3, <1>5

LEMMA InitIsGood ==
    ASSUME Init
    PROVE  ViewInv
<1> DEFINE entries == [k \in {} |-> k]
           index == [v \in Values |-> {}]
<1>1. view = [entries |-> entries, order |-> <<>>, hasIndex |-> FALSE, index |-> index]
  BY DEF Init, newInMemoryView
<1>2. entries \in [{} -> Entry] /\ {} \in SUBSET Keys /\ DOMAIN entries = {}
  OBVIOUS
<1>3. index \in [Values -> SUBSET Keys] /\ <<>> \in Seq(Keys) /\ FALSE \in BOOLEAN
  OBVIOUS
<1> HIDE DEF entries, index
<1>4. view \in Views
  BY <1>1, <1>2, <1>3, ViewBuilt
<1>5. view.entries = entries /\ view.order = <<>> /\ view.hasIndex = FALSE
  BY <1>1
<1>6. Positioned(view) /\ Indexed(view)
  BY <1>2, <1>5 DEF Positioned, Indexed
<1>7. Bounded(view)
  <2>1. Cardinality({}) = 0 /\ Len(<<>>) = 0
    BY FS_EmptySet
  <2> QED
    BY <1>2, <1>5, <2>1, ViewAssumption DEF Bounded
<1>8. view \in GoodViews
  BY <1>4, <1>6, <1>7 DEF GoodViews, SoundViews
<1>9. calls \in Seq([call : Calls, part : Nat]) /\ DOMAIN calls = {}
  BY DEF Init
<1> QED
  BY <1>8, <1>9 DEF Init, ViewInv

LEMMA CallIsGood ==
    ASSUME ViewInv, NEW call \in Calls, Call(call)
    PROVE  ViewInv' /\ Moved(view, view')
<1> DEFINE Made == [call : Calls, part : Nat]
<1>1. /\ pc = "applying" /\ (NeedsIndex(call) => view.hasIndex)
      /\ calls \in Seq(Made) /\ UNCHANGED <<revision, number, retries>>
      /\ revision \in Nat /\ number \in Nat /\ retries \in Nat
  BY DEF Call, ViewInv
<1>2. PICK part \in IF calls = <<>> THEN {0} ELSE {calls[Len(calls)].part,
                                                   calls[Len(calls)].part + 1} :
          Take(call, part) /\ calls' = Append(calls, [call |-> call, part |-> part])
  BY DEF Call
<1>3. part \in Nat
  <2>1. CASE calls = <<>>
    BY <1>2, <2>1
  <2>2. CASE calls # <<>>
    <3>1. calls[Len(calls)] \in Made
      <4> HIDE DEF Made
      <4> QED
        BY <1>1, <2>2
    <3>2. calls[Len(calls)].part \in Nat
      BY <3>1
    <3> QED
      BY <1>2, <2>2, <3>2
  <2> QED
    BY <2>1, <2>2
<1>4. /\ view' \in GoodViews /\ Moved(view, view') /\ view'.hasIndex = view.hasIndex
      /\ pc' \in {"applying", "stopped"} /\ next' \in Nat \ {0}
  BY <1>1, <1>2, <1>3, TakeMoves
<1> DEFINE made == [call |-> call, part |-> part]
<1>5. made \in Made /\ made.call = call
  BY <1>3
<1> HIDE DEF made, Made
<1>6. /\ calls' \in Seq(Made)
      /\ \A i \in DOMAIN calls' : calls'[i] = made \/ (i \in DOMAIN calls /\ calls'[i] = calls[i])
  <2>1. calls' = Append(calls, made)
    BY <1>2 DEF made
  <2> QED
    BY <1>1, <1>5, <2>1
<1>7. \A i \in DOMAIN calls' : NeedsIndex(calls'[i].call) => view'.hasIndex
  <2>1. \A i \in DOMAIN calls : NeedsIndex(calls[i].call) => view.hasIndex
    BY DEF ViewInv
  <2> QED
    BY <1>1, <1>4, <1>5, <1>6, <2>1, Zenon
<1> QED
  BY <1>1, <1>4, <1>6, <1>7 DEF ViewInv, Made

LEMMA CallAgainIsGood ==
    ASSUME ViewInv, CallAgain
    PROVE  ViewInv' /\ Moved(view, view')
<1> DEFINE Made == [call : Calls, part : Nat]
<1>1. /\ pc = "applying" /\ next <= Len(calls) /\ next \in Nat \ {0}
      /\ Take(calls[next].call, calls[next].part)
      /\ calls \in Seq(Made) /\ UNCHANGED <<revision, number, calls, retries>>
      /\ \A i \in DOMAIN calls : NeedsIndex(calls[i].call) => view.hasIndex
  BY DEF CallAgain, ViewInv
<1>2. next \in DOMAIN calls /\ calls[next] \in Made
  <2> HIDE DEF Made
  <2> QED
    BY <1>1
<1>3. calls[next].call \in Calls /\ calls[next].part \in Nat
  BY <1>2
<1>4. /\ view' \in GoodViews /\ Moved(view, view') /\ view'.hasIndex = view.hasIndex
      /\ pc' \in {"applying", "stopped"} /\ next' \in Nat \ {0}
  BY <1>1, <1>2, <1>3, TakeMoves
<1> QED
  BY <1>1, <1>4 DEF ViewInv

LEMMA StepIsGood ==
    ASSUME ViewInv, [Next]_vars
    PROVE  ViewInv'
<1>1. CASE AddIndex
  <2>1. view' \in GoodViews /\ view'.hasIndex = TRUE
    <3>1. view \in Views /\ view' = Index(view)
      BY <1>1 DEF AddIndex, ViewInv, GoodViews, SoundViews
    <3>2. PICK e, o, h, i : view = [entries |-> e, order |-> o, hasIndex |-> h, index |-> i]
      BY <3>1, ViewIsRecord
    <3>3. view'.hasIndex = TRUE
      BY <3>1, <3>2 DEF Index
    <3> QED
      BY <3>1, <3>3, IndexIs DEF ViewInv
  <2> QED
    BY <1>1, <2>1 DEF AddIndex, ViewInv
<1>2. CASE BeginEvent
  <2>1. calls' \in Seq([call : Calls, part : Nat]) /\ DOMAIN calls' = {}
    BY <1>2 DEF BeginEvent
  <2> QED
    BY <1>2, <2>1 DEF BeginEvent, ViewInv
<1>3. CASE CallAgain
  BY <1>3, CallAgainIsGood
<1>4. CASE HandlerFails
  BY <1>4 DEF HandlerFails, ViewInv
<1>5. CASE EndEvent
  <2>1. calls' \in Seq([call : Calls, part : Nat]) /\ DOMAIN calls' = {}
    BY <1>5 DEF EndEvent
  <2>2. revision' \in Nat
    BY <1>5 DEF EndEvent, ViewInv
  <2> QED
    BY <1>5, <2>1, <2>2 DEF EndEvent, ViewInv
<1>6. ASSUME NEW call \in Calls, Call(call)
      PROVE  ViewInv'
  BY <1>6, CallIsGood
<1>7. CASE UNCHANGED vars
  BY <1>7 DEF vars, ViewInv
<1> QED
  BY <1>1, <1>2, <1>3, <1>4, <1>5, <1>6, <1>7 DEF Next

LEMMA ViewRunInv == Spec => []ViewInv
BY InitIsGood, StepIsGood, PTL DEF Spec

\* Whatever the handlers insert, change and delete, by key, by value or over
\* the index, the order of the keys never holds more than twice the items and
\* Slack more: compact comes often enough (in_memory_view.go).
THEOREM OrderStaysBounded == Spec => []OrderIsBounded
<1>1. ViewInv => OrderIsBounded
  BY DEF ViewInv, GoodViews, Bounded, OrderIsBounded
<1> QED
  BY <1>1, ViewRunInv, PTL

-----------------------------------------------------------------------------
(***************************************************************************)
(* What All and Lookup hand out.                                           *)
(***************************************************************************)
LEMMA LenIs ==
    ASSUME NEW f, NEW n \in Nat, f = [i \in DOMAIN f |-> f[i]], DOMAIN f = 1 .. n
    PROVE  Len(f) = n
<1> DEFINE S == {f[i] : i \in 1 .. n}
<1>1. f \in [1 .. n -> S]
  OBVIOUS
<1> HIDE DEF S
<1> QED
  BY <1>1

LEMMA AllIs ==
    ASSUME NEW vw \in SoundViews
    PROVE  LET keys == CurrentKeys(vw)
               all == All(vw)
           IN  /\ DOMAIN all = DOMAIN keys /\ DOMAIN all = 1 .. Len(all)
               /\ Len(all) = Len(keys) /\ Len(all) \in Nat
               /\ \A i \in DOMAIN all : /\ all[i] = ItemOf(keys[i], vw.entries[keys[i]])
                                        /\ all[i].key = keys[i]
                                        /\ all[i].value = vw.entries[keys[i]].value
<1> DEFINE keys == CurrentKeys(vw)
           item(i) == ItemOf(keys[i], vw.entries[keys[i]])
           all == [i \in DOMAIN keys |-> item(i)]
<1>1. keys \in Seq(Keys) /\ DOMAIN keys = 1 .. Len(keys)
  BY CurrentKeysAre
<1>2. All(vw) = all
  BY DEF All
<1> HIDE DEF keys
<1>3. \A i \in DOMAIN keys : /\ item(i).key = keys[i]
                             /\ item(i).value = vw.entries[keys[i]].value
  BY DEF ItemOf
<1>4. Len(all) = Len(keys)
  <2>1. all = [i \in DOMAIN all |-> all[i]] /\ DOMAIN all = DOMAIN keys
    OBVIOUS
  <2> HIDE DEF all
  <2> QED
    BY <1>1, <2>1, LenIs
<1>5. DOMAIN all = DOMAIN keys /\ \A i \in DOMAIN keys : all[i] = item(i)
  OBVIOUS
<1> HIDE DEF all, item
<1>6. Len(keys) \in Nat
  BY <1>1
<1> QED
  BY <1>1, <1>2, <1>3, <1>4, <1>5, <1>6 DEF keys, item

\* The keys at the positions of some entries are those entries' keys among all.
LEMMA SomeKeys ==
    ASSUME NEW vw \in SoundViews, NEW K \in SUBSET DOMAIN vw.entries
    PROVE  LET keys == CurrentKeys(vw)
               Q == PositionsOf(vw, K)
               I == {i \in DOMAIN keys : keys[i] \in K}
           IN  /\ IsFiniteSet(Q) /\ Cardinality(Q) = Cardinality(I)
               /\ \A n \in 1 .. Cardinality(Q) : /\ Nth(Q, n) \in Q /\ Nth(I, n) \in I
                                                 /\ vw.order[Nth(Q, n)] = keys[Nth(I, n)]
<1> DEFINE P == CurrentPositions(vw)
           keys == CurrentKeys(vw)
           Q == PositionsOf(vw, K)
           I == {i \in DOMAIN keys : keys[i] \in K}
<1>1. /\ P \in SUBSET Nat /\ IsFiniteSet(P) /\ Cardinality(P) = Cardinality(DOMAIN vw.entries)
      /\ Cardinality(P) \in Nat
  BY CurrentPositionsAre
<1>2. /\ DOMAIN keys = 1 .. Cardinality(P)
      /\ \A n \in DOMAIN keys : keys[n] = vw.order[Nth(P, n)]
  BY <1>1, CurrentKeysAre
<1>3. /\ Q \in SUBSET Nat /\ IsFiniteSet(Q) /\ Q = {p \in P : vw.order[p] \in K}
  BY PositionsAre
<1> HIDE DEF P, keys, Q
<1>4. I \in SUBSET (1 .. Cardinality(P))
  BY <1>2
<1>5. (\A i \in I : Nth(P, i) \in Q) /\ (\A q \in Q : \E i \in I : Nth(P, i) = q)
  <2>1. \A i \in I : Nth(P, i) \in Q
    BY <1>1, <1>2, <1>3, NthIs
  <2>2. \A p \in Q : \E i \in I : Nth(P, i) = p
    <3> SUFFICES ASSUME NEW p \in Q
                 PROVE  \E i \in I : Nth(P, i) = p
      OBVIOUS
    <3>1. p \in P /\ vw.order[p] \in K
      BY <1>3
    <3>2. PICK i \in 1 .. Cardinality(P) : i = Cardinality(Upto(P, p))
      BY <1>1, <3>1, RankBounds
    <3>3. Nth(P, i) = p
      BY <1>1, <3>1, <3>2, NthOfRank
    <3>4. i \in I
      BY <1>2, <3>1, <3>3
    <3> QED
      BY <3>3, <3>4
  <2> QED
    BY <2>1, <2>2
<1>6. \A i \in I : keys[i] = vw.order[Nth(P, i)]
  BY <1>2
<1> HIDE DEF I
<1>7. /\ Cardinality(Q) = Cardinality(I)
      /\ \A n \in 1 .. Cardinality(I) : Nth(I, n) \in I /\ Nth(Q, n) = Nth(P, Nth(I, n))
  <2>1. P \in SUBSET Nat /\ IsFiniteSet(P)
    BY <1>1
  <2>2. Cardinality(Q) = Cardinality(I)
    BY <1>4, <1>5, <2>1, PickOfPick
  <2>3. ASSUME NEW n \in 1 .. Cardinality(I)
        PROVE  Nth(I, n) \in I /\ Nth(Q, n) = Nth(P, Nth(I, n))
    BY <1>4, <1>5, <2>1, <2>3, PickOfPick
  <2> QED
    BY <2>2, <2>3
<1>8. \A n \in 1 .. Cardinality(Q) : Nth(Q, n) \in Q
  BY <1>3, NthIs
<1> QED
  BY <1>3, <1>6, <1>7, <1>8 DEF Q, I, keys

LEMMA LookupIs ==
    ASSUME NEW vw \in SoundViews, vw.hasIndex, NEW v \in Values
    PROVE  Lookup(vw, v) = Pick(All(vw), {i \in DOMAIN All(vw) : All(vw)[i].value = v})
<1> DEFINE K == vw.index[v]
           Q == PositionsOf(vw, K)
           keys == CurrentKeys(vw)
           I == {i \in DOMAIN keys : keys[i] \in K}
           all == All(vw)
           J == {i \in DOMAIN all : all[i].value = v}
           found == [n \in 1 .. Cardinality(Q) |-> KeyAt(vw, K, Nth(Q, n))]
<1>1. K = {k \in DOMAIN vw.entries : vw.entries[k].value = v}
  BY DEF SoundViews, Indexed
<1>2. K \in SUBSET DOMAIN vw.entries
  BY <1>1
<1>3. \A i \in DOMAIN keys : keys[i] \in DOMAIN vw.entries
  BY CurrentKeysAre
<1>4. /\ DOMAIN all = DOMAIN keys
      /\ \A i \in DOMAIN all : /\ all[i] = ItemOf(keys[i], vw.entries[keys[i]])
                               /\ all[i].value = vw.entries[keys[i]].value
  BY AllIs
<1>5. /\ IsFiniteSet(Q) /\ Cardinality(Q) = Cardinality(I)
      /\ \A n \in 1 .. Cardinality(Q) : /\ Nth(Q, n) \in Q /\ Nth(I, n) \in I
                                        /\ vw.order[Nth(Q, n)] = keys[Nth(I, n)]
  BY <1>2, SomeKeys
<1>6. \A p \in Q : KeyAt(vw, K, p) = vw.order[p]
  BY <1>2, PositionsAre
<1>7. Lookup(vw, v) = [i \in DOMAIN found |-> ItemOf(found[i], vw.entries[found[i]])]
  BY DEF Lookup, keysOf
<1> HIDE DEF K, Q, keys, all
<1>8. I = J
  BY <1>1, <1>3, <1>4
<1>9. \A n \in 1 .. Cardinality(Q) : found[n] = keys[Nth(I, n)] /\ Nth(I, n) \in DOMAIN all
  BY <1>4, <1>5, <1>6
<1>10. DOMAIN found = 1 .. Cardinality(I)
  BY <1>5
<1> HIDE DEF found, I
<1>11. \A n \in 1 .. Cardinality(I) :
          ItemOf(found[n], vw.entries[found[n]]) = all[Nth(I, n)]
  BY <1>4, <1>5, <1>9
<1>12. Lookup(vw, v) = [n \in 1 .. Cardinality(I) |-> all[Nth(I, n)]]
  BY <1>7, <1>10, <1>11
<1>13. Lookup(vw, v) = Pick(all, I)
  BY <1>12 DEF Pick
<1> QED
  BY <1>8, <1>13 DEF all, J

\* Whatever the handlers insert, change and delete, and whenever the index was
\* added, the index leads to just the items with the value, in the order of All:
\* add, change, delete and compact keep it up to date (InMemoryIndex).
THEOREM LookupAlwaysMatches == Spec => []LookupMatchesAll
<1>1. ViewInv => LookupMatchesAll
  <2> SUFFICES ASSUME ViewInv, view.hasIndex, NEW v \in Values
               PROVE  Lookup(view, v) =
                        Pick(All(view), {i \in DOMAIN All(view) : All(view)[i].value = v})
    BY DEF LookupMatchesAll
  <2>1. view \in SoundViews
    BY DEF ViewInv, GoodViews
  <2> QED
    BY <2>1, LookupIs
<1> QED
  BY <1>1, ViewRunInv, PTL

-----------------------------------------------------------------------------
(***************************************************************************)
(* The view is a sequence of items.                                        *)
(***************************************************************************)
LEMMA LeftIs ==
    ASSUME NEW vw \in SoundViews, NEW new \in SoundViews, Left(vw, new)
    PROVE  All(new) = Pick(All(vw), {i \in DOMAIN All(vw) :
                                        All(vw)[i].key \in DOMAIN new.entries})
<1> DEFINE K == DOMAIN new.entries
           P == CurrentPositions(new)
           Q == PositionsOf(vw, K)
           keys == CurrentKeys(vw)
           rest == CurrentKeys(new)
           I == {i \in DOMAIN keys : keys[i] \in K}
           g == [p \in P |-> vw.entries[new.order[p]].position]
<1>1. K \in SUBSET DOMAIN vw.entries
  BY DEF Left
<1>2. /\ P \in SUBSET Nat /\ IsFiniteSet(P) /\ Cardinality(P) = Cardinality(K)
      /\ Cardinality(P) \in Nat
      /\ \A p \in P : new.order[p] \in K /\ new.entries[new.order[p]].position = p
      /\ \A k \in K : new.entries[k].position \in P /\ new.order[new.entries[k].position] = k
  BY CurrentPositionsAre
<1>3. /\ Q \in SUBSET Nat /\ IsFiniteSet(Q)
      /\ \A p \in Q : vw.order[p] \in K /\ vw.entries[vw.order[p]].position = p
  BY <1>1, PositionsAre
<1>4. \A k \in K : vw.order[vw.entries[k].position] = k /\ vw.entries[k].position \in Q
  BY <1>1 DEF PositionsOf, SoundViews, Positioned
<1>5. /\ DOMAIN rest = 1 .. Cardinality(P)
      /\ \A n \in DOMAIN rest : rest[n] = new.order[Nth(P, n)] /\ rest[n] \in K
  BY <1>2, CurrentKeysAre
<1>6. /\ Cardinality(Q) = Cardinality(I)
      /\ \A n \in 1 .. Cardinality(Q) : /\ Nth(I, n) \in I
                                        /\ vw.order[Nth(Q, n)] = keys[Nth(I, n)]
  BY <1>1, SomeKeys
<1>7. \A i \in DOMAIN keys : keys[i] \in DOMAIN vw.entries
  BY CurrentKeysAre
<1>8. \A k, l \in K : new.entries[k].position < new.entries[l].position =>
                          vw.entries[k].position < vw.entries[l].position
  BY DEF Left
<1>9. \A k \in K : ItemOf(k, new.entries[k]) = ItemOf(k, vw.entries[k])
  BY DEF Left
<1> HIDE DEF K, P, Q, keys, rest
<1>11. \A p \in P : g[p] = vw.entries[new.order[p]].position
  OBVIOUS
<1>12. g \in [P -> Q] /\ \A q \in Q : \E p \in P : g[p] = q
  <2>1. \A p \in P : vw.entries[new.order[p]].position \in Q
    BY <1>2, <1>4
  <2>2. g \in [P -> Q]
    BY <2>1
  <2>3. ASSUME NEW q \in Q
        PROVE  \E p \in P : g[p] = q
    <3>1. vw.order[q] \in K /\ vw.entries[vw.order[q]].position = q
      BY <1>3
    <3>2. PICK p \in P : new.order[p] = vw.order[q]
      BY <1>2, <3>1
    <3> QED
      BY <3>1, <3>2
  <2> QED
    BY <2>2, <2>3
<1> HIDE DEF g
<1>13. \A p, q \in P : p < q => g[p] < g[q]
  BY <1>2, <1>8, <1>11
<1>14. /\ Cardinality(Q) = Cardinality(P)
       /\ \A n \in 1 .. Cardinality(P) : Nth(Q, n) = g[Nth(P, n)]
  BY <1>2, <1>3, <1>12, <1>13, GrowingKeepsRanks
<1>15. \A n \in 1 .. Cardinality(P) : rest[n] = keys[Nth(I, n)] /\ Nth(I, n) \in I
  <2> SUFFICES ASSUME NEW n \in 1 .. Cardinality(P)
               PROVE  rest[n] = keys[Nth(I, n)] /\ Nth(I, n) \in I
    OBVIOUS
  <2>1. Nth(P, n) \in P
    BY <1>2, NthIs
  <2>2. rest[n] = new.order[Nth(P, n)] /\ rest[n] \in K
    BY <1>5
  <2>3. Nth(Q, n) = vw.entries[rest[n]].position
    BY <1>11, <1>14, <2>1, <2>2
  <2>4. vw.order[Nth(Q, n)] = rest[n]
    BY <1>4, <2>2, <2>3
  <2> HIDE DEF I
  <2> QED
    BY <1>6, <1>14, <2>4
<1> DEFINE all == All(vw)
           after == All(new)
           J == {i \in DOMAIN all : all[i].key \in K}
<1>16. /\ DOMAIN all = DOMAIN keys
       /\ \A i \in DOMAIN all : /\ all[i] = ItemOf(keys[i], vw.entries[keys[i]])
                                /\ all[i].key = keys[i]
  BY AllIs DEF keys
<1>17. /\ DOMAIN after = DOMAIN rest
       /\ \A i \in DOMAIN after : after[i] = ItemOf(rest[i], new.entries[rest[i]])
  BY AllIs DEF rest
<1>18. after = [i \in DOMAIN after |-> after[i]]
  BY DEF All
<1> HIDE DEF all, after
<1>19. I = J
  BY <1>7, <1>16
<1>20. \A i \in I : i \in DOMAIN all
  BY <1>16
<1> HIDE DEF I, J
<1>21. \A n \in 1 .. Cardinality(P) : after[n] = all[Nth(I, n)]
  BY <1>5, <1>9, <1>15, <1>16, <1>17, <1>20
<1>22. after = Pick(all, J)
  <2>1. DOMAIN after = 1 .. Cardinality(I)
    BY <1>5, <1>6, <1>14, <1>17
  <2>2. Cardinality(I) = Cardinality(P)
    BY <1>6, <1>14
  <2> QED
    BY <1>18, <1>19, <1>21, <2>1, <2>2 DEF Pick
<1> QED
  BY <1>22 DEF all, after, J, K

LEMMA LeftRemoves ==
    ASSUME NEW vw \in SoundViews, NEW new \in SoundViews, Left(vw, new)
    PROVE  Ordered!Remove(All(vw), All(new))
<1> DEFINE all == All(vw)
           K == DOMAIN new.entries
           gone == Keys \ K
           J == {i \in DOMAIN all : all[i].key \in K}
<1>1. All(new) = Pick(all, J)
  BY LeftIs
<1>2. \A i \in DOMAIN all : all[i].key \in Keys
  <2>1. DOMAIN vw.entries \in SUBSET Keys
    BY ViewFields DEF SoundViews
  <2>2. \A i \in DOMAIN CurrentKeys(vw) : CurrentKeys(vw)[i] \in DOMAIN vw.entries
    BY CurrentKeysAre
  <2>3. \A i \in DOMAIN all : i \in DOMAIN CurrentKeys(vw) /\ all[i].key = CurrentKeys(vw)[i]
    BY AllIs
  <2> QED
    BY <2>1, <2>2, <2>3
<1> HIDE DEF all, K
<1>3. J = {i \in DOMAIN all : all[i].key \notin gone}
  BY <1>2
<1>4. gone \in SUBSET Keys
  OBVIOUS
<1> HIDE DEF gone
<1>5. Ordered!Remove(all, All(new))
  <2>1. Pick(all, J) = Ordered!Pick(all, J)
    BY Zenon DEF Pick, Nth, Cardinality, Ordered!Pick, Ordered!Nth, Ordered!Cardinality
  <2>2. All(new) = Ordered!Pick(all, {i \in DOMAIN all : all[i].key \notin gone})
    BY <1>1, <1>3, <2>1
  <2> QED
    BY <1>4, <2>2 DEF Ordered!Remove
<1> QED
  BY <1>5 DEF all

\* Views with the same keys at the same positions have the same keys in their order.
LEMMA SamePositions ==
    ASSUME NEW vw, NEW new, DOMAIN new.entries = DOMAIN vw.entries, new.order = vw.order,
           \A k \in DOMAIN vw.entries : new.entries[k].position = vw.entries[k].position
    PROVE  CurrentKeys(new) = CurrentKeys(vw)
<1>1. CurrentPositions(new) = CurrentPositions(vw)
  BY DEF CurrentPositions, IsCurrent, IsFound
<1> QED
  BY <1>1 DEF CurrentKeys

LEMMA AlteredChanges ==
    ASSUME NEW vw \in SoundViews, NEW new \in SoundViews, NEW event \in Events,
           NEW value \in Values, Altered(vw, event, value, new)
    PROVE  Ordered!Change(All(vw), All(new))
<1> DEFINE keys == CurrentKeys(vw)
           all == All(vw)
           after == All(new)
           D == DOMAIN vw.entries
           Set(e) == [e EXCEPT !.value = value, !.number = event.number, !.part = event.part]
<1>1. /\ DOMAIN new.entries = D /\ new.order = vw.order
      /\ \A k \in D : \/ new.entries[k] = vw.entries[k]
                      \/ /\ isNewerThan(event, vw.entries[k])
                         /\ new.entries[k] = Set(vw.entries[k])
  BY DEF Altered
<1>2. \A k \in D : vw.entries[k] \in Entry
  BY EntryFields DEF SoundViews
<1>3. \A e \in Entry : /\ Set(e).value = value /\ Set(e).number = event.number
                       /\ Set(e).part = event.part /\ Set(e).position = e.position
  BY DEF Entry
<1> HIDE DEF Set
<1>4. \A k \in D : new.entries[k].position = vw.entries[k].position
  BY <1>1, <1>2, <1>3
<1>5. CurrentKeys(new) = keys
  BY <1>1, <1>4, SamePositions
<1>6. /\ DOMAIN all = DOMAIN keys /\ DOMAIN all = 1 .. Len(all) /\ Len(all) = Len(keys)
      /\ \A i \in DOMAIN all : all[i] = ItemOf(keys[i], vw.entries[keys[i]])
  BY AllIs
<1>7. /\ DOMAIN after = DOMAIN keys /\ Len(after) = Len(keys)
      /\ \A i \in DOMAIN after : after[i] = ItemOf(keys[i], new.entries[keys[i]])
  BY <1>5, AllIs
<1>8. \A i \in DOMAIN keys : keys[i] \in D
  BY CurrentKeysAre
<1> HIDE DEF keys, all, after
<1> DEFINE set(k) == [key |-> k, value |-> value, number |-> event.number, part |-> event.part]
<1>9. ASSUME NEW i \in DOMAIN all, after[i] # all[i]
      PROVE  after[i] = set(keys[i]) /\ all[i].key = keys[i] /\ Ordered!IsNewer(after[i], all[i])
  <2>1. keys[i] \in D /\ after[i] = ItemOf(keys[i], new.entries[keys[i]])
        /\ all[i] = ItemOf(keys[i], vw.entries[keys[i]])
    BY <1>6, <1>7, <1>8
  <2>2. /\ isNewerThan(event, vw.entries[keys[i]])
        /\ new.entries[keys[i]] = Set(vw.entries[keys[i]])
    BY <1>1, <1>9, <2>1
  <2>3. after[i] = set(keys[i])
    BY <1>2, <1>3, <2>1, <2>2 DEF ItemOf
  <2>4. /\ all[i].key = keys[i] /\ all[i].number = vw.entries[keys[i]].number
        /\ all[i].part = vw.entries[keys[i]].part
    BY <2>1 DEF ItemOf
  <2>5. after[i].number = event.number /\ after[i].part = event.part
    BY <2>3
  <2> QED
    BY <2>2, <2>3, <2>4, <2>5 DEF isNewerThan, Ordered!IsNewer
<1>10. Len(after) = Len(all)
  BY <1>6, <1>7
<1> DEFINE moved == {i \in DOMAIN all : after[i] # all[i]}
<1>11. ASSUME NEW i \in moved
       PROVE  /\ after[i].key = all[i].key /\ Ordered!IsNewer(after[i], all[i])
              /\ \A j \in moved : after[j] = [after[i] EXCEPT !.key = all[j].key]
  <2>1. after[i] = set(keys[i]) /\ all[i].key = keys[i] /\ Ordered!IsNewer(after[i], all[i])
    BY <1>9
  <2>2. ASSUME NEW j \in moved
        PROVE  after[j] = [after[i] EXCEPT !.key = all[j].key]
    <3>1. after[j] = set(keys[j]) /\ all[j].key = keys[j]
      BY <1>9
    <3>2. [set(keys[i]) EXCEPT !.key = keys[j]] = set(keys[j])
      OBVIOUS
    <3> HIDE DEF set
    <3> QED
      BY <2>1, <3>1, <3>2
  <2>3. after[i].key = all[i].key
    BY <2>1
  <2> QED
    BY <2>1, <2>2, <2>3
<1> HIDE DEF set
<1>12. Ordered!Change(all, after)
  BY <1>10, <1>11 DEF Ordered!Change
<1> QED
  BY <1>12 DEF all, after

\* One more number, greater than all others.
LEMMA NthOfAppended ==
    ASSUME NEW P \in SUBSET Nat, IsFiniteSet(P), NEW m \in Nat, \A p \in P : p < m,
           NEW Q, Q = P \cup {m}
    PROVE  /\ IsFiniteSet(Q) /\ Cardinality(Q) = Cardinality(P) + 1
           /\ \A n \in 1 .. Cardinality(P) : Nth(Q, n) = Nth(P, n)
           /\ Nth(Q, Cardinality(P) + 1) = m
<1>1. m \notin P /\ Q \in SUBSET Nat
  OBVIOUS
<1>2. IsFiniteSet(Q) /\ Cardinality(Q) = Cardinality(P) + 1
  BY <1>1, FS_AddElement
<1>3. ASSUME NEW n \in 1 .. Cardinality(P)
      PROVE  Nth(Q, n) = Nth(P, n)
  <2>1. PICK p \in P : p = Nth(P, n) /\ Cardinality(Upto(P, p)) = n
    BY <1>3, NthIs
  <2>2. Upto(Q, p) = Upto(P, p)
    BY DEF Upto
  <2>3. p \in Q
    OBVIOUS
  <2>4. Nth(Q, Cardinality(Upto(Q, p))) = p
    BY <1>1, <1>2, <2>3, NthOfRank
  <2> QED
    BY <2>1, <2>2, <2>4
<1>4. Nth(Q, Cardinality(P) + 1) = m
  <2>1. Upto(Q, m) = Q
    <3>1. \A q \in Q : q <= m
      <4>1. \A q \in P : q \in Nat /\ q < m
        OBVIOUS
      <4>2. \A q \in P : q <= m
        BY <4>1
      <4> QED
        BY <4>2
    <3> QED
      BY <3>1 DEF Upto
  <2>2. Nth(Q, Cardinality(Upto(Q, m))) = m
    BY <1>1, <1>2, NthOfRank
  <2> QED
    BY <1>2, <2>1, <2>2
<1> QED
  BY <1>2, <1>3, <1>4

LEMMA GrownAdds ==
    ASSUME NEW vw \in SoundViews, NEW new \in SoundViews, Grown(vw, new)
    PROVE  Ordered!Add(All(vw), All(new))
<1> DEFINE keys == CurrentKeys(vw)
           more == CurrentKeys(new)
           all == All(vw)
           after == All(new)
           D == DOMAIN vw.entries
           P == CurrentPositions(vw)
           Q == CurrentPositions(new)
           L == Len(vw.order)
           N == Cardinality(P)
<1>1. PICK key \in Keys \ D :
          /\ DOMAIN new.entries = D \cup {key}
          /\ new.order = Append(vw.order, key)
          /\ \A k \in D : new.entries[k] = vw.entries[k]
          /\ new.entries[key].position = L + 1
  BY DEF Grown
<1>2. /\ P \in SUBSET DOMAIN vw.order /\ P \in SUBSET Nat /\ IsFiniteSet(P) /\ N \in Nat
      /\ Cardinality(P) = Cardinality(D)
      /\ \A p \in P : vw.order[p] \in D /\ vw.entries[vw.order[p]].position = p
      /\ \A k \in D : vw.entries[k].position \in P /\ vw.order[vw.entries[k].position] = k
  BY CurrentPositionsAre
<1>3. /\ Q \in SUBSET DOMAIN new.order /\ Cardinality(Q) = Cardinality(DOMAIN new.entries)
      /\ \A p \in Q : /\ new.order[p] \in DOMAIN new.entries
                      /\ new.entries[new.order[p]].position = p
      /\ \A k \in DOMAIN new.entries : new.entries[k].position \in Q
  BY CurrentPositionsAre
<1>4. vw.order \in Seq(Keys) /\ L \in Nat /\ DOMAIN vw.order = 1 .. L
  BY ViewFields DEF SoundViews
<1>5. /\ DOMAIN new.order = 1 .. L + 1 /\ new.order[L + 1] = key
      /\ \A p \in 1 .. L : new.order[p] = vw.order[p]
  BY <1>1, <1>4
<1> HIDE DEF P, Q
<1>6. Q = P \cup {L + 1}
  <2>1. \A p \in P : p \in Q
    BY <1>1, <1>2, <1>3
  <2>2. L + 1 \in Q
    BY <1>1, <1>3
  <2>3. ASSUME NEW p \in Q
        PROVE  p \in P \cup {L + 1}
    <3>1. /\ new.order[p] \in D \cup {key} /\ new.entries[new.order[p]].position = p
      BY <1>1, <1>3
    <3>2. CASE new.order[p] = key
      BY <1>1, <3>1, <3>2
    <3>3. CASE new.order[p] \in D
      <4>1. PICK k \in D : k = new.order[p]
        BY <3>3
      <4>2. new.entries[k] = vw.entries[k] /\ new.entries[k].position = p
        BY <1>1, <3>1, <4>1
      <4>3. vw.entries[k].position \in P
        BY <1>2
      <4> QED
        BY <4>2, <4>3
    <3> QED
      BY <3>1, <3>2, <3>3
  <2> QED
    BY <2>1, <2>2, <2>3
<1>7. L + 1 \in Nat /\ \A p \in P : p < L + 1
  BY <1>2, <1>4
<1>8. /\ Cardinality(Q) = N + 1 /\ Nth(Q, N + 1) = L + 1
      /\ \A n \in 1 .. N : Nth(Q, n) = Nth(P, n) /\ Nth(P, n) \in P
  <2>1. P \in SUBSET Nat /\ IsFiniteSet(P)
    BY <1>2
  <2>2. PICK m \in Nat : m = L + 1
    BY <1>7
  <2>3. (\A p \in P : p < m) /\ Q = P \cup {m}
    BY <1>6, <1>7, <2>2
  <2>4. /\ Cardinality(Q) = Cardinality(P) + 1
        /\ \A n \in 1 .. Cardinality(P) : Nth(Q, n) = Nth(P, n)
        /\ Nth(Q, Cardinality(P) + 1) = m
    BY <2>1, <2>3, NthOfAppended
  <2>5. \A n \in 1 .. Cardinality(P) : Nth(P, n) \in P
    BY <2>1, NthIs
  <2> QED
    BY <2>2, <2>4, <2>5
<1>9. /\ DOMAIN keys = 1 .. N /\ Len(keys) = N
      /\ \A n \in DOMAIN keys : keys[n] = vw.order[Nth(P, n)] /\ keys[n] \in D
  BY <1>2, CurrentKeysAre DEF P
<1>10. /\ DOMAIN more = 1 .. N + 1 /\ Len(more) = N + 1
       /\ \A n \in DOMAIN more : more[n] = new.order[Nth(Q, n)]
  BY <1>3, <1>8, CurrentKeysAre DEF Q
<1>11. /\ DOMAIN all = DOMAIN keys /\ Len(all) = Len(keys)
       /\ \A i \in DOMAIN all : /\ all[i] = ItemOf(keys[i], vw.entries[keys[i]])
                                /\ all[i].key = keys[i]
  BY AllIs
<1>12. /\ DOMAIN after = DOMAIN more /\ Len(after) = Len(more)
       /\ \A i \in DOMAIN after : /\ after[i] = ItemOf(more[i], new.entries[more[i]])
                                  /\ after[i].key = more[i]
  BY AllIs
<1>13. /\ all = [i \in DOMAIN all |-> all[i]]
       /\ after = [i \in DOMAIN after |-> after[i]]
  BY DEF All
<1> HIDE DEF keys, more, all, after, N
<1>14. \A n \in 1 .. N : more[n] = keys[n]
  <2> SUFFICES ASSUME NEW n \in 1 .. N
               PROVE  more[n] = keys[n]
    OBVIOUS
  <2>1. Nth(Q, n) = Nth(P, n) /\ Nth(P, n) \in 1 .. L
    BY <1>2, <1>4, <1>8
  <2>2. n \in 1 .. N + 1
    BY <1>2
  <2> QED
    BY <1>5, <1>9, <1>10, <2>1, <2>2
<1>15. more[N + 1] = key
  BY <1>2, <1>5, <1>8, <1>10
<1>16. \A n \in 1 .. N : after[n] = all[n]
  <2> SUFFICES ASSUME NEW n \in 1 .. N
               PROVE  after[n] = all[n]
    OBVIOUS
  <2>1. n \in 1 .. N + 1 /\ keys[n] \in D /\ more[n] = keys[n]
    BY <1>2, <1>9, <1>14
  <2>2. after[n] = ItemOf(keys[n], new.entries[keys[n]])
    BY <1>10, <1>12, <2>1
  <2>3. all[n] = ItemOf(keys[n], vw.entries[keys[n]])
    BY <1>9, <1>11
  <2>4. new.entries[keys[n]] = vw.entries[keys[n]]
    BY <1>1, <2>1
  <2> QED
    BY <2>2, <2>3, <2>4
<1>17. Len(after) = Len(all) + 1 /\ Len(all) = N
  BY <1>9, <1>10, <1>11, <1>12
<1>18. SubSeq(after, 1, Len(all)) = all
  <2>1. SubSeq(after, 1, N) = [i \in 1 .. N |-> after[i]]
    BY <1>2, <1>10, <1>12, <1>13
  <2> QED
    BY <1>9, <1>11, <1>13, <1>16, <1>17, <2>1
<1>19. ~Ordered!Has(all, after[Len(after)].key)
  <2>1. after[Len(after)].key = key
    BY <1>2, <1>10, <1>12, <1>15
  <2> QED
    BY <1>1, <1>9, <1>11, <2>1 DEF Ordered!Has
<1>20. Ordered!Add(all, after)
  BY <1>17, <1>18, <1>19 DEF Ordered!Add
<1> QED
  BY <1>20 DEF all, after

LEMMA MovedSteps ==
    ASSUME NEW vw \in GoodViews, NEW new \in GoodViews, Moved(vw, new)
    PROVE  Ordered!Step(All(vw), All(new))
<1>1. vw \in SoundViews /\ new \in SoundViews
  BY DEF GoodViews
<1>2. CASE Grown(vw, new)
  BY <1>1, <1>2, GrownAdds DEF Ordered!Step
<1>3. CASE \E event \in Events, value \in Values : Altered(vw, event, value, new)
  BY <1>1, <1>3, AlteredChanges DEF Ordered!Step
<1>4. CASE Left(vw, new)
  BY <1>1, <1>4, LeftRemoves DEF Ordered!Step
<1> QED
  BY <1>2, <1>3, <1>4 DEF Moved

\* Adding the index changes nothing that All hands out.
LEMMA IndexKeepsAll ==
    ASSUME NEW vw \in GoodViews
    PROVE  All(Index(vw)) = All(vw)
<1>1. PICK new : new = Index(vw)
  OBVIOUS
<1>2. new.entries = vw.entries /\ new.order = vw.order
  BY <1>1, IndexIs
<1>3. CurrentKeys(new) = CurrentKeys(vw)
  BY <1>2, SamePositions
<1>4. All(new) = All(vw)
  BY <1>2, <1>3 DEF All
<1> QED
  BY <1>1, <1>4

\* The view implements a plain sequence of items (OrderedView): whatever is
\* inserted, changed, deleted, inserted again, tried again and compacted, All
\* hands out every item once and in the order in which the items were added,
\* and an item changes in its place and for a newer event only.
THEOREM ViewIsOrdered == Spec => IsOrdered
<1>1. Init => Ordered!Init
  <2> SUFFICES ASSUME Init
               PROVE  All(view) = <<>>
    BY DEF Ordered!Init
  <2>1. view \in SoundViews
    BY InitIsGood DEF ViewInv, GoodViews
  <2>2. DOMAIN view.entries = {}
    <3>1. PICK e : e = [k \in {} |-> k]
      OBVIOUS
    <3>2. DOMAIN e = {}
      BY <3>1
    <3>3. view.entries = e
      BY <3>1 DEF Init, newInMemoryView
    <3> QED
      BY <3>2, <3>3
  <2>3. Cardinality({}) = 0
    BY FS_EmptySet
  <2>4. Len(CurrentKeys(view)) = 0 /\ DOMAIN CurrentKeys(view) = 1 .. Len(CurrentKeys(view))
    BY <2>1, <2>2, <2>3, CurrentKeysAre
  <2>5. DOMAIN CurrentKeys(view) = {}
    BY <2>4
  <2>6. All(view) = [i \in {} |-> ItemOf(CurrentKeys(view)[i], view.entries[CurrentKeys(view)[i]])]
    BY <2>5 DEF All
  <2> QED
    BY <2>6
<1>2. ViewInv /\ ViewInv' /\ [Next]_vars => [Ordered!Next]_(All(view))
  <2> SUFFICES ASSUME ViewInv, ViewInv', [Next]_vars
               PROVE  Ordered!Step(All(view), All(view')) \/ All(view') = All(view)
    BY DEF Ordered!Next
  <2>1. view \in GoodViews /\ view' \in GoodViews
    BY DEF ViewInv
  <2>2. CASE AddIndex
    BY <2>1, <2>2, IndexKeepsAll DEF AddIndex
  <2>3. CASE BeginEvent \/ HandlerFails \/ EndEvent \/ UNCHANGED vars
    <3>1. view' = view
      BY <2>3 DEF BeginEvent, HandlerFails, EndEvent, vars
    <3> QED
      BY <3>1
  <2>4. CASE CallAgain
    <3>1. Moved(view, view')
      BY <2>4, CallAgainIsGood
    <3> QED
      BY <2>1, <3>1, MovedSteps
  <2>5. ASSUME NEW call \in Calls, Call(call)
        PROVE  Ordered!Step(All(view), All(view'))
    <3>1. Moved(view, view')
      BY <2>5, CallIsGood
    <3> QED
      BY <2>1, <3>1, MovedSteps
  <2> QED
    BY <2>2, <2>3, <2>4, <2>5 DEF Next
<1> QED
  BY <1>1, <1>2, ViewRunInv, PTL DEF Spec, IsOrdered, Ordered!Spec
-----------------------------------------------------------------------------
(***************************************************************************)
(* What a call means for a sequence of items.                              *)
(***************************************************************************)
Item == [key : Keys, value : Values, number : Nat, part : Nat]

Items(seq) == {seq[i] : i \in DOMAIN seq}

IsDistinct(seq) == \A i, j \in DOMAIN seq : seq[i].key = seq[j].key => i = j

Lists == {seq \in Seq(Item) : IsDistinct(seq)}

LEMMA ListFields ==
    ASSUME NEW A \in Lists
    PROVE  /\ A \in Seq(Item) /\ Len(A) \in Nat /\ DOMAIN A = 1 .. Len(A)
           /\ IsDistinct(A)
           /\ \A i \in DOMAIN A : A[i] \in Item
           /\ A = [i \in 1 .. Len(A) |-> A[i]]
<1>1. A \in Seq(Item) /\ IsDistinct(A)
  BY DEF Lists
<1> HIDE DEF Item
<1> QED
  BY <1>1

LEMMA ItemFields ==
    ASSUME NEW x \in Item
    PROVE  /\ x.key \in Keys /\ x.value \in Values /\ x.number \in Nat /\ x.part \in Nat
           /\ x = [key |-> x.key, value |-> x.value, number |-> x.number, part |-> x.part]
BY DEF Item

LEMMA AllIsList ==
    ASSUME NEW vw \in SoundViews
    PROVE  /\ All(vw) \in Lists
           /\ \A i \in DOMAIN All(vw) :
                 LET k == All(vw)[i].key
                 IN  k \in DOMAIN vw.entries /\ All(vw)[i] = ItemOf(k, vw.entries[k])
           /\ \A k \in DOMAIN vw.entries : \E i \in DOMAIN All(vw) : All(vw)[i].key = k
<1> DEFINE keys == CurrentKeys(vw)
           all == All(vw)
<1>1. /\ DOMAIN all = DOMAIN keys /\ DOMAIN all = 1 .. Len(all) /\ Len(all) \in Nat
      /\ \A i \in DOMAIN all : /\ all[i] = ItemOf(keys[i], vw.entries[keys[i]])
                               /\ all[i].key = keys[i]
  BY AllIs
<1>2. /\ \A n \in DOMAIN keys : keys[n] \in DOMAIN vw.entries
      /\ \A k \in DOMAIN vw.entries : \E n \in DOMAIN keys : keys[n] = k
      /\ \A m, n \in DOMAIN keys :
            m < n => vw.entries[keys[m]].position < vw.entries[keys[n]].position
  BY CurrentKeysAre
<1>3. vw \in Views
  BY DEF SoundViews
<1>4. all = [i \in DOMAIN all |-> all[i]]
  BY DEF All
<1> HIDE DEF keys, all
<1>5. \A k \in DOMAIN vw.entries : ItemOf(k, vw.entries[k]) \in Item
  <2> SUFFICES ASSUME NEW k \in DOMAIN vw.entries
               PROVE  ItemOf(k, vw.entries[k]) \in Item
    OBVIOUS
  <2>1. /\ k \in Keys /\ vw.entries[k].value \in Values /\ vw.entries[k].number \in Nat
        /\ vw.entries[k].part \in Nat
    BY <1>3, EntryFields
  <2> QED
    BY <2>1 DEF ItemOf, Item
<1>6. \A i \in DOMAIN all : all[i] \in Item
  BY <1>1, <1>2, <1>5
<1>7. all \in Seq(Item)
  <2>1. PICK n \in Nat : DOMAIN all = 1 .. n
    BY <1>1
  <2> HIDE DEF Item
  <2>2. all \in [1 .. n -> Item]
    BY <1>4, <1>6, <2>1
  <2> QED
    BY <2>2
<1>8. IsDistinct(all)
  <2> SUFFICES ASSUME NEW i \in DOMAIN all, NEW j \in DOMAIN all, all[i].key = all[j].key
               PROVE  i = j
    BY DEF IsDistinct
  <2>1. keys[i] = keys[j] /\ i \in Nat /\ j \in Nat
    BY <1>1
  <2>2. vw.entries[keys[i]].position \in Nat
    BY <1>1, <1>2, <1>3, EntryFields
  <2>3. ~(i < j) /\ ~(j < i)
    BY <1>1, <1>2, <2>1, <2>2
  <2> QED
    BY <2>1, <2>3
<1>9. all \in Lists
  BY <1>7, <1>8 DEF Lists
<1>10. \A i \in DOMAIN all : /\ all[i].key \in DOMAIN vw.entries
                             /\ all[i] = ItemOf(all[i].key, vw.entries[all[i].key])
  BY <1>1, <1>2
<1>11. \A k \in DOMAIN vw.entries : \E i \in DOMAIN all : all[i].key = k
  BY <1>1, <1>2
<1> QED
  BY <1>9, <1>10, <1>11 DEF all

\* The kinds of calls, which items a call is for, which of them it changes or
\* removes for an event, and what it makes of them.
Adds(call) == call.kind \in {"Insert", "Upsert"}

Sets(call) == call.kind \in {"Upsert", "Update", "UpdateWhere", "IndexUpdate"}

Keeps(call) == Sets(call) \/ call.kind = "Insert"

Hits(item, call) ==
    IF call.kind \in {"Upsert", "Update", "Delete"} THEN item.key = call.key
    ELSE call.kind # "Insert" /\ item.value = call.match

Moves(item, call, event) == Hits(item, call) /\ isNewerThan(event, item)

Stamped(key, call, event) ==
    [key |-> key, value |-> call.value, number |-> event.number, part |-> event.part]

HasKey(seq, key) == \E i \in DOMAIN seq : seq[i].key = key

Stays(seq, call, event) == {i \in DOMAIN seq : ~Moves(seq[i], call, event)}

Plain(seq, call, event) ==
    IF Adds(call) /\ ~HasKey(seq, call.key) THEN Append(seq, Stamped(call.key, call, event))
    ELSE IF Keeps(call)
    THEN [i \in DOMAIN seq |-> IF Moves(seq[i], call, event)
                               THEN Stamped(seq[i].key, call, event) ELSE seq[i]]
    ELSE Pick(seq, Stays(seq, call, event))

WithStamp(x, u, v, w) == [x EXCEPT !.value = u, !.number = v, !.part = w]

LEMMA StampIs ==
    ASSUME NEW x, NEW a, NEW b, NEW c, NEW d, NEW u, NEW v, NEW w,
           x = [key |-> a, value |-> b, number |-> c, part |-> d]
    PROVE  WithStamp(x, u, v, w) = [key |-> a, value |-> u, number |-> v, part |-> w]
<1>1. PICK y : y = [x EXCEPT !.value = u]
  OBVIOUS
<1>2. y = [key |-> a, value |-> u, number |-> c, part |-> d]
  BY <1>1
<1>3. PICK z : z = [y EXCEPT !.number = v]
  OBVIOUS
<1>4. z = [key |-> a, value |-> u, number |-> v, part |-> d]
  BY <1>2, <1>3
<1>5. [z EXCEPT !.part = w] = [key |-> a, value |-> u, number |-> v, part |-> w]
  BY <1>4
<1>6. WithStamp(x, u, v, w) = [[[x EXCEPT !.value = u] EXCEPT !.number = v] EXCEPT !.part = w]
  BY DEF WithStamp
<1> QED
  BY <1>1, <1>3, <1>5, <1>6

LEMMA ChangedIs ==
    ASSUME NEW A \in Lists, NEW K, NEW call, NEW event,
           \A i \in DOMAIN A : A[i].key \in K <=> Hits(A[i], call)
    PROVE  Ordered!Changed(A, K, call.value, event) =
              [i \in DOMAIN A |-> IF Moves(A[i], call, event)
                                  THEN Stamped(A[i].key, call, event) ELSE A[i]]
<1> DEFINE set(x) == [x EXCEPT !.value = call.value, !.number = event.number, !.part = event.part]
<1>1. \A i \in DOMAIN A : A[i] \in Item
  BY ListFields
<1>2. \A x \in Item : set(x) = Stamped(x.key, call, event)
  <2> SUFFICES ASSUME NEW x \in Item
               PROVE  set(x) = Stamped(x.key, call, event)
    OBVIOUS
  <2>1. PICK a, b, c, d : x = [key |-> a, value |-> b, number |-> c, part |-> d]
    BY ItemFields
  <2>2. x.key = a
    BY <2>1
  <2>3. set(x) = [key |-> a, value |-> call.value, number |-> event.number, part |-> event.part]
    <3>1. PICK u, v, w : u = call.value /\ v = event.number /\ w = event.part
      OBVIOUS
    <3>2. set(x) = WithStamp(x, u, v, w)
      BY <3>1 DEF WithStamp
    <3>3. WithStamp(x, u, v, w) = [key |-> a, value |-> u, number |-> v, part |-> w]
      BY <2>1, StampIs
    <3> QED
      BY <3>1, <3>2, <3>3
  <2> HIDE DEF set
  <2> QED
    BY <2>2, <2>3 DEF Stamped
<1>3. \A i \in DOMAIN A :
         (A[i].key \in K /\ Ordered!IsNewer(event, A[i])) <=> Moves(A[i], call, event)
  BY DEF Moves, isNewerThan, Ordered!IsNewer
<1>4. Ordered!Changed(A, K, call.value, event) =
        [i \in DOMAIN A |-> IF A[i].key \in K /\ Ordered!IsNewer(event, A[i])
                            THEN set(A[i]) ELSE A[i]]
  BY DEF Ordered!Changed
<1> HIDE DEF set
<1> QED
  BY <1>1, <1>2, <1>3, <1>4

LEMMA RemovedIs ==
    ASSUME NEW A, NEW K, NEW call, NEW event,
           \A i \in DOMAIN A : A[i].key \in K <=> Hits(A[i], call)
    PROVE  Ordered!Removed(A, K, event) = Pick(A, Stays(A, call, event))
<1> DEFINE I == Stays(A, call, event)
           J == {i \in DOMAIN A : ~(A[i].key \in K /\ Ordered!IsNewer(event, A[i]))}
<1>1. I = J
  BY DEF Stays, Moves, isNewerThan, Ordered!IsNewer
<1>2. Ordered!Removed(A, K, event) = Ordered!Pick(A, J)
  BY DEF Ordered!Removed
<1> HIDE DEF J
<1>3. Ordered!Pick(A, J) = Pick(A, J)
  BY Zenon DEF Pick, Nth, Cardinality, Ordered!Pick, Ordered!Nth, Ordered!Cardinality
<1> QED
  BY <1>1, <1>2, <1>3

LEMMA MatchingIs ==
    ASSUME NEW A \in Lists, NEW u, NEW i \in DOMAIN A
    PROVE  A[i].key \in {A[j].key : j \in {k \in DOMAIN A : A[k].value = u}} <=> A[i].value = u
<1>1. IsDistinct(A)
  BY ListFields
<1> QED
  BY <1>1 DEF IsDistinct

LEMMA MeantIs ==
    ASSUME NEW A \in Lists, NEW call \in Calls, NEW event
    PROVE  Meant(A, call, event) = Plain(A, call, event)
<1> DEFINE M == {A[j].key : j \in {k \in DOMAIN A : A[k].value = call.match}}
           changed == [i \in DOMAIN A |-> IF Moves(A[i], call, event)
                                          THEN Stamped(A[i].key, call, event) ELSE A[i]]
           rest == Pick(A, Stays(A, call, event))
           added == Append(A, Stamped(call.key, call, event))
<1>1. call.kind \in {"Insert", "Upsert", "Update", "Delete", "UpdateWhere",
                     "DeleteWhere", "IndexUpdate", "IndexDelete"}
  BY CallFields
<1>2. Ordered!Has(A, call.key) <=> HasKey(A, call.key)
  BY DEF HasKey, Ordered!Has
<1>3. Ordered!Added(A, call.key, call.value, event) = IF HasKey(A, call.key) THEN A ELSE added
  BY <1>2 DEF Ordered!Added, Stamped
<1>4. Plain(A, call, event) = IF Adds(call) /\ ~HasKey(A, call.key) THEN added
                              ELSE IF Keeps(call) THEN changed ELSE rest
  BY DEF Plain
<1>5. \A i \in DOMAIN A : A[i].key \in M <=> A[i].value = call.match
  BY MatchingIs
<1>6. CASE call.kind = "Insert"
  <2>1. Meant(A, call, event) = Ordered!Added(A, call.key, call.value, event)
    BY <1>6 DEF Meant
  <2>2. changed = A
    <3>1. \A i \in DOMAIN A : ~Moves(A[i], call, event)
      BY <1>6 DEF Moves, Hits
    <3>2. A = [i \in 1 .. Len(A) |-> A[i]] /\ DOMAIN A = 1 .. Len(A)
      BY ListFields
    <3> QED
      BY <3>1, <3>2
  <2> HIDE DEF changed, rest, added
  <2> QED
    BY <1>3, <1>4, <1>6, <2>1, <2>2 DEF Adds, Keeps
<1>7. CASE call.kind \in {"Upsert", "Update"}
  <2>1. \A i \in DOMAIN A : A[i].key \in {call.key} <=> Hits(A[i], call)
    BY <1>7 DEF Hits
  <2>2. Ordered!Changed(A, {call.key}, call.value, event) = changed
    BY <2>1, ChangedIs
  <2>3. Meant(A, call, event) = IF call.kind = "Upsert" /\ ~Ordered!Has(A, call.key)
                                THEN Ordered!Added(A, call.key, call.value, event)
                                ELSE Ordered!Changed(A, {call.key}, call.value, event)
    BY <1>7 DEF Meant
  <2> HIDE DEF changed, rest, added
  <2> QED
    BY <1>2, <1>3, <1>4, <1>7, <2>2, <2>3 DEF Adds, Keeps, Sets
<1>8. CASE call.kind = "Delete"
  <2>1. \A i \in DOMAIN A : A[i].key \in {call.key} <=> Hits(A[i], call)
    BY <1>8 DEF Hits
  <2>2. Ordered!Removed(A, {call.key}, event) = rest
    BY <2>1, RemovedIs
  <2>3. Meant(A, call, event) = Ordered!Removed(A, {call.key}, event)
    BY <1>8 DEF Meant
  <2> HIDE DEF changed, rest, added
  <2> QED
    BY <1>4, <1>8, <2>2, <2>3 DEF Adds, Keeps, Sets
<1>9. CASE call.kind \in {"UpdateWhere", "IndexUpdate"}
  <2>1. \A i \in DOMAIN A : A[i].key \in M <=> Hits(A[i], call)
    BY <1>5, <1>9 DEF Hits
  <2>2. Meant(A, call, event) = Ordered!Changed(A, M, call.value, event)
    BY <1>9 DEF Meant
  <2> HIDE DEF M
  <2>3. Ordered!Changed(A, M, call.value, event) = changed
    BY <2>1, ChangedIs
  <2> HIDE DEF changed, rest, added
  <2> QED
    BY <1>4, <1>9, <2>2, <2>3 DEF Adds, Keeps, Sets
<1>10. CASE call.kind \in {"DeleteWhere", "IndexDelete"}
  <2>1. \A i \in DOMAIN A : A[i].key \in M <=> Hits(A[i], call)
    BY <1>5, <1>10 DEF Hits
  <2>2. Meant(A, call, event) = Ordered!Removed(A, M, event)
    BY <1>10 DEF Meant
  <2> HIDE DEF M
  <2>3. Ordered!Removed(A, M, event) = rest
    BY <2>1, RemovedIs
  <2> HIDE DEF changed, rest, added
  <2> QED
    BY <1>4, <1>10, <2>2, <2>3 DEF Adds, Keeps, Sets
<1> QED
  BY <1>1, <1>6, <1>7, <1>8, <1>9, <1>10
-----------------------------------------------------------------------------
(***************************************************************************)
(* A call on the view does to All just what it means.                      *)
(***************************************************************************)
ValueKeys(vw, u) == {k \in DOMAIN vw.entries : vw.entries[k].value = u}

LEMMA KeysArePicked ==
    ASSUME NEW vw \in SoundViews, NEW u \in Values
    PROVE  LET Q == PositionsOf(vw, ValueKeys(vw, u))
           IN  /\ keysWhere(vw, u) = Pick(vw.order, Q)
               /\ vw.hasIndex => keysOf(vw, u) = Pick(vw.order, Q)
<1> DEFINE P == CurrentPositions(vw)
           K == ValueKeys(vw, u)
           Q == PositionsOf(vw, K)
           W == {p \in P : vw.entries[vw.order[p]].value = u}
<1>1. K \in SUBSET DOMAIN vw.entries
  BY DEF ValueKeys
<1>2. /\ Q \in SUBSET Nat /\ IsFiniteSet(Q) /\ Q = {p \in P : vw.order[p] \in K}
      /\ \A p \in Q : KeyAt(vw, K, p) = vw.order[p]
  BY <1>1, PositionsAre
<1>3. \A p \in P : vw.order[p] \in DOMAIN vw.entries
  BY CurrentPositionsAre
<1>4. keysWhere(vw, u) = Pick(vw.order, W)
  BY DEF keysWhere
<1>5. vw.hasIndex => vw.index[u] = K
  BY DEF SoundViews, Indexed, ValueKeys
<1> HIDE DEF P, Q
<1>6. W = Q
  BY <1>2, <1>3 DEF ValueKeys
<1>7. ASSUME vw.hasIndex
      PROVE  keysOf(vw, u) = Pick(vw.order, Q)
  <2>1. keysOf(vw, u) = [n \in 1 .. Cardinality(Q) |-> KeyAt(vw, K, Nth(Q, n))]
    BY <1>5, <1>7 DEF keysOf, Q
  <2>2. \A n \in 1 .. Cardinality(Q) : Nth(Q, n) \in Q
    BY <1>2, NthIs
  <2> HIDE DEF K
  <2>3. \A n \in 1 .. Cardinality(Q) : KeyAt(vw, K, Nth(Q, n)) = vw.order[Nth(Q, n)]
    BY <1>2, <2>2
  <2> QED
    BY <2>1, <2>3 DEF Pick
<1> HIDE DEF W
<1> QED
  BY <1>4, <1>6, <1>7 DEF Q

\* UpdateWhere and the functions of the index get to the items with the value,
\* and to no others.
AreKeysOf(keys, K) ==
    Len(keys) \in Nat /\ \A k : k \in K <=> \E n \in 1 .. Len(keys) : keys[n] = k

LEMMA PickedKeysAre ==
    ASSUME NEW vw \in SoundViews, NEW K \in SUBSET DOMAIN vw.entries
    PROVE  AreKeysOf(Pick(vw.order, PositionsOf(vw, K)), K)
<1> DEFINE Q == PositionsOf(vw, K)
           keys == Pick(vw.order, Q)
<1>1. /\ Q \in SUBSET Nat /\ IsFiniteSet(Q)
      /\ \A p \in Q : vw.order[p] \in K
  BY PositionsAre
<1>2. \A k \in K : vw.entries[k].position \in Q /\ vw.order[vw.entries[k].position] = k
  BY DEF PositionsOf, SoundViews, Positioned
<1>3. Cardinality(Q) \in Nat
  BY <1>1, FS_CardinalityType
<1> HIDE DEF Q
<1>4. \A n \in 1 .. Cardinality(Q) : Nth(Q, n) \in Q /\ vw.order[Nth(Q, n)] \in K
  BY <1>1, NthIs
<1>5. Len(keys) = Cardinality(Q)
  BY <1>3, <1>4, PickIsSeq
<1>6. \A n \in 1 .. Cardinality(Q) : keys[n] = vw.order[Nth(Q, n)]
  BY DEF Pick
<1> HIDE DEF keys
<1>7. ASSUME NEW k \in K
      PROVE  \E n \in 1 .. Len(keys) : keys[n] = k
  <2>1. PICK p \in Q : vw.order[p] = k
    BY <1>2
  <2>2. PICK n \in 1 .. Cardinality(Q) : n = Cardinality(Upto(Q, p))
    BY <1>1, RankBounds
  <2>3. Nth(Q, n) = p
    BY <1>1, <2>2, NthOfRank
  <2> QED
    BY <1>5, <1>6, <2>1, <2>3
<1>8. \A n \in 1 .. Len(keys) : keys[n] \in K
  BY <1>4, <1>5, <1>6
<1>9. AreKeysOf(keys, K)
  BY <1>3, <1>5, <1>7, <1>8 DEF AreKeysOf
<1> QED
  BY <1>9 DEF keys, Q

LEMMA KeysAre ==
    ASSUME NEW vw \in SoundViews, NEW u \in Values
    PROVE  /\ AreKeysOf(keysWhere(vw, u), ValueKeys(vw, u))
           /\ vw.hasIndex => AreKeysOf(keysOf(vw, u), ValueKeys(vw, u))
<1> DEFINE K == ValueKeys(vw, u)
<1>1. K \in SUBSET DOMAIN vw.entries
  BY DEF ValueKeys
<1>2. AreKeysOf(Pick(vw.order, PositionsOf(vw, K)), K)
  BY <1>1, PickedKeysAre
<1> HIDE DEF K
<1>3. /\ keysWhere(vw, u) = Pick(vw.order, PositionsOf(vw, K))
      /\ vw.hasIndex => keysOf(vw, u) = Pick(vw.order, PositionsOf(vw, K))
  BY KeysArePicked DEF K
<1> QED
  BY <1>2, <1>3 DEF K

LEMMA AddedIs ==
    ASSUME NEW vw \in GoodViews, NEW call, NEW event \in Events, call.value \in Values,
           call.key \in Keys \ DOMAIN vw.entries
    PROVE  All(add(vw, call.key, call.value, event)) =
              Append(All(vw), Stamped(call.key, call, event))
<1>1. PICK new : new = add(vw, call.key, call.value, event)
  OBVIOUS
<1>2. PICK key \in Keys \ DOMAIN vw.entries : key = call.key
  OBVIOUS
<1>3. /\ new \in GoodViews
      /\ DOMAIN new.entries = DOMAIN vw.entries \cup {key}
      /\ new.order = Append(vw.order, key)
      /\ \A k \in DOMAIN vw.entries : new.entries[k] = vw.entries[k]
      /\ new.entries[key] = [value |-> call.value, number |-> event.number,
                             part |-> event.part, position |-> Len(vw.order) + 1]
  BY <1>1, <1>2, AddIs
<1>4. /\ new.entries[key].position = Len(vw.order) + 1
      /\ ItemOf(key, new.entries[key]) = Stamped(key, call, event)
  BY <1>3 DEF ItemOf, Stamped
<1>5. vw \in SoundViews /\ new \in SoundViews
  BY <1>3 DEF GoodViews
<1>6. Grown(vw, new)
  BY <1>3, <1>4 DEF Grown
<1> DEFINE all == All(vw)
           after == All(new)
           N == Len(all)
<1>7. /\ Len(after) = N + 1 /\ SubSeq(after, 1, N) = all
      /\ ~Ordered!Has(all, after[Len(after)].key)
  BY <1>5, <1>6, GrownAdds DEF Ordered!Add
<1>8. /\ all \in Lists /\ after \in Lists
      /\ \A i \in DOMAIN after : /\ after[i].key \in DOMAIN new.entries
                                 /\ after[i] = ItemOf(after[i].key, new.entries[after[i].key])
      /\ \A k \in DOMAIN vw.entries : \E i \in DOMAIN all : all[i].key = k
  BY <1>5, AllIsList
<1> HIDE DEF all, after
<1>9. /\ all \in Seq(Item) /\ N \in Nat /\ after \in Seq(Item) /\ DOMAIN after = 1 .. Len(after)
  BY <1>8, ListFields
<1>10. after[N + 1].key = key
  <2>1. N + 1 \in DOMAIN after /\ Len(after) = N + 1
    BY <1>7, <1>9
  <2>2. after[N + 1].key \notin DOMAIN vw.entries
    BY <1>7, <1>8, <2>1 DEF Ordered!Has
  <2> QED
    BY <1>3, <1>8, <2>1, <2>2
<1>11. after[N + 1] = Stamped(key, call, event)
  BY <1>4, <1>7, <1>8, <1>9, <1>10
<1>12. after = Append(all, after[N + 1])
  <2> HIDE DEF Item
  <2>1. after \in Seq(Item) /\ Len(after) = N + 1 /\ all = SubSeq(after, 1, N)
    BY <1>7, <1>9
  <2>2. after[N + 1] \in Item
    BY <1>9, <2>1
  <2>3. Len(Append(all, after[N + 1])) = N + 1 /\ Append(all, after[N + 1]) \in Seq(Item)
    BY <1>9, <2>2
  <2>4. \A i \in 1 .. N : all[i] = after[i]
    BY <1>9, <2>1
  <2>5. \A i \in 1 .. N + 1 : Append(all, after[N + 1])[i] = after[i]
    BY <1>9, <2>4
  <2> QED
    BY <1>9, <2>1, <2>3, <2>5
<1> QED
  BY <1>1, <1>2, <1>11, <1>12 DEF all, after

LEMMA DueIs ==
    ASSUME NEW vw, NEW k \in DOMAIN vw.entries, NEW call, NEW event
    PROVE  Moves(ItemOf(k, vw.entries[k]), call, event) <=>
              Hits(ItemOf(k, vw.entries[k]), call) /\ Due(vw, k, event)
<1>1. isNewerThan(event, ItemOf(k, vw.entries[k])) <=> isNewerThan(event, vw.entries[k])
  BY DEF isNewerThan, ItemOf
<1> QED
  BY <1>1 DEF Moves, Due

LEMMA AlteredIs ==
    ASSUME NEW vw \in SoundViews, NEW new \in SoundViews, NEW event \in Events, NEW call,
           Altered(vw, event, call.value, new), NEW K,
           \A k \in DOMAIN vw.entries : k \in K <=> Hits(ItemOf(k, vw.entries[k]), call),
           \A k \in DOMAIN vw.entries \ K : new.entries[k] = vw.entries[k],
           \A k \in K : ~Due(new, k, event)
    PROVE  All(new) = [i \in DOMAIN All(vw) |->
                          IF Moves(All(vw)[i], call, event)
                          THEN Stamped(All(vw)[i].key, call, event) ELSE All(vw)[i]]
<1> DEFINE keys == CurrentKeys(vw)
           all == All(vw)
           after == All(new)
           D == DOMAIN vw.entries
           Set(e) == [e EXCEPT !.value = call.value, !.number = event.number, !.part = event.part]
<1>1. /\ DOMAIN new.entries = D /\ new.order = vw.order
      /\ \A k \in D : \/ new.entries[k] = vw.entries[k]
                      \/ /\ isNewerThan(event, vw.entries[k])
                         /\ new.entries[k] = Set(vw.entries[k])
  BY DEF Altered
<1>2. \A k \in D : vw.entries[k] \in Entry
  BY EntryFields DEF SoundViews
<1>3. \A e \in Entry : /\ Set(e).value = call.value /\ Set(e).number = event.number
                       /\ Set(e).part = event.part /\ Set(e).position = e.position
  BY DEF Entry
<1> HIDE DEF Set
<1>4. \A k \in D : new.entries[k].position = vw.entries[k].position
  BY <1>1, <1>2, <1>3
<1>5. CurrentKeys(new) = keys
  BY <1>1, <1>4, SamePositions
<1>6. /\ DOMAIN all = DOMAIN keys
      /\ \A i \in DOMAIN all : /\ all[i] = ItemOf(keys[i], vw.entries[keys[i]])
                               /\ all[i].key = keys[i]
  BY AllIs
<1>7. /\ DOMAIN after = DOMAIN keys
      /\ \A i \in DOMAIN after : after[i] = ItemOf(keys[i], new.entries[keys[i]])
  BY <1>5, AllIs
<1>8. \A i \in DOMAIN keys : keys[i] \in D
  BY CurrentKeysAre
<1>9. after = [i \in DOMAIN after |-> after[i]]
  BY DEF All
<1> HIDE DEF keys, all, after
<1>10. ASSUME NEW k \in D
       PROVE  IF Moves(ItemOf(k, vw.entries[k]), call, event)
              THEN ItemOf(k, new.entries[k]) = Stamped(k, call, event)
              ELSE new.entries[k] = vw.entries[k]
  <2>1. Moves(ItemOf(k, vw.entries[k]), call, event) <=> k \in K /\ Due(vw, k, event)
    BY DueIs
  <2>2. CASE k \in K /\ Due(vw, k, event)
    <3>1. new.entries[k] # vw.entries[k]
      <4>1. isNewerThan(event, vw.entries[k]) /\ ~Due(new, k, event) /\ k \in DOMAIN new.entries
        BY <1>1, <2>2 DEF Due
      <4> QED
        BY <4>1 DEF Due
    <3>2. new.entries[k] = Set(vw.entries[k])
      BY <1>1, <3>1
    <3>3. ItemOf(k, new.entries[k]) = Stamped(k, call, event)
      BY <1>2, <1>3, <3>2 DEF ItemOf, Stamped
    <3> QED
      BY <2>1, <2>2, <3>3
  <2>3. CASE ~(k \in K /\ Due(vw, k, event))
    <3>1. new.entries[k] = vw.entries[k]
      BY <1>1, <2>3 DEF Due
    <3> QED
      BY <2>1, <2>3, <3>1
  <2> QED
    BY <2>2, <2>3
<1>11. ASSUME NEW i \in DOMAIN all
       PROVE  after[i] = IF Moves(all[i], call, event)
                         THEN Stamped(all[i].key, call, event) ELSE all[i]
  <2>1. PICK k \in D : k = keys[i]
    BY <1>6, <1>8
  <2>2. /\ after[i] = ItemOf(k, new.entries[k]) /\ all[i] = ItemOf(k, vw.entries[k])
        /\ all[i].key = k
    BY <1>6, <1>7, <2>1
  <2> QED
    BY <1>10, <2>2
<1>12. after = [i \in DOMAIN all |-> IF Moves(all[i], call, event)
                                     THEN Stamped(all[i].key, call, event) ELSE all[i]]
  BY <1>6, <1>7, <1>9, <1>11
<1> QED
  BY <1>12 DEF all, after

LEMMA LeftStays ==
    ASSUME NEW vw \in SoundViews, NEW new \in SoundViews, NEW event, NEW call,
           Left(vw, new), NEW K,
           \A k \in DOMAIN vw.entries : k \in K <=> Hits(ItemOf(k, vw.entries[k]), call),
           \A k \in DOMAIN vw.entries \ DOMAIN new.entries : Due(vw, k, event) /\ k \in K,
           \A k \in K : ~Due(new, k, event)
    PROVE  All(new) = Pick(All(vw), Stays(All(vw), call, event))
<1> DEFINE all == All(vw)
           J == {i \in DOMAIN all : all[i].key \in DOMAIN new.entries}
<1>1. All(new) = Pick(all, J)
  BY LeftIs
<1>2. \A i \in DOMAIN all : /\ all[i].key \in DOMAIN vw.entries
                            /\ all[i] = ItemOf(all[i].key, vw.entries[all[i].key])
  BY AllIsList
<1> HIDE DEF all
<1>3. ASSUME NEW i \in DOMAIN all
      PROVE  all[i].key \in DOMAIN new.entries <=> ~Moves(all[i], call, event)
  <2>1. PICK k \in DOMAIN vw.entries : k = all[i].key /\ all[i] = ItemOf(k, vw.entries[k])
    BY <1>2
  <2>2. Moves(all[i], call, event) <=> k \in K /\ Due(vw, k, event)
    BY <2>1, DueIs
  <2>3. CASE k \in DOMAIN new.entries
    <3>1. Due(new, k, event) <=> Due(vw, k, event)
      BY <2>3, DueIfLeft
    <3> QED
      BY <2>1, <2>2, <2>3, <3>1
  <2>4. CASE k \notin DOMAIN new.entries
    BY <2>1, <2>2, <2>4
  <2> QED
    BY <2>3, <2>4
<1>4. J = Stays(all, call, event)
  BY <1>3 DEF Stays
<1> HIDE DEF J
<1> QED
  BY <1>1, <1>4 DEF all

LEMMA HitsByValue ==
    ASSUME NEW vw, NEW call,
           call.kind \in {"UpdateWhere", "IndexUpdate", "DeleteWhere", "IndexDelete"},
           NEW k \in DOMAIN vw.entries
    PROVE  k \in ValueKeys(vw, call.match) <=> Hits(ItemOf(k, vw.entries[k]), call)
BY DEF Hits, ItemOf, ValueKeys

LEMMA HasKeyIs ==
    ASSUME NEW vw \in SoundViews, NEW key
    PROVE  HasKey(All(vw), key) <=> IsFound(vw, key)
BY AllIsList DEF HasKey, IsFound

\* A call that changes the item of one key.
LEMMA ChangeIsPlain ==
    ASSUME NEW vw \in GoodViews, NEW call, call.kind \in {"Upsert", "Update"},
           call.value \in Values, NEW event \in Events, NEW isBroken, NEW o,
           o = change(vw, call.key, event, call.value, isBroken), o.outcome # "error",
           call.kind = "Upsert" => IsFound(vw, call.key)
    PROVE  All(o.view) = Plain(All(vw), call, event)
<1>1. PICK new \in GoodViews :
                              /\ o.view = new /\ Altered(vw, event, call.value, new)
                              /\ \A k \in DOMAIN vw.entries \ {call.key} :
                                    new.entries[k] = vw.entries[k]
                              /\ ~Due(new, call.key, event)
  <2>1. ChangeMade(vw, call.key, event, call.value, o)
    BY ChangeIs
  <2>2. CASE \E x \in Names : o = Outcome(vw, x) /\ (x = "error" \/ ~Due(vw, call.key, event))
    <3>1. o.view = vw /\ ~Due(vw, call.key, event)
      BY <2>2 DEF Outcome
    <3>2. Altered(vw, event, call.value, vw)
      BY DEF Altered
    <3> QED
      BY <3>1, <3>2
  <2>3. CASE \E new : ChangedTo(vw, call.key, event, call.value, new) /\ o = Outcome(new, "Applied")
    <3>1. PICK new : ChangedTo(vw, call.key, event, call.value, new) /\ o = Outcome(new, "Applied")
      BY <2>3
    <3>2. o.view = new /\ new \in GoodViews
      BY <3>1 DEF Outcome, ChangedTo
    <3>3. /\ call.key \in DOMAIN vw.entries
          /\ \A k \in DOMAIN vw.entries \ {call.key} : new.entries[k] = vw.entries[k]
          /\ new.entries[call.key] = [vw.entries[call.key] EXCEPT
                !.value = call.value, !.number = event.number, !.part = event.part]
      BY <3>1 DEF ChangedTo
    <3>4. Altered(vw, event, call.value, new)
      BY <3>1 DEF ChangedTo, Altered
    <3>5. ~Due(new, call.key, event)
      <4>1. vw.entries[call.key] \in Entry
        BY <3>3, EntryFields DEF GoodViews, SoundViews
      <4>2. /\ new.entries[call.key].number = event.number
            /\ new.entries[call.key].part = event.part
        BY <3>3, <4>1 DEF Entry
      <4>3. event.number \in Nat /\ event.part \in Nat
        BY DEF Events
      <4> QED
        BY <4>2, <4>3 DEF Due, isNewerThan
    <3> QED
      BY <3>2, <3>3, <3>4, <3>5
  <2> QED
    BY <2>1, <2>2, <2>3 DEF ChangeMade
<1>2. vw \in SoundViews /\ new \in SoundViews
  BY DEF GoodViews
<1> DEFINE K == {call.key}
<1>3. \A k \in DOMAIN vw.entries : k \in K <=> Hits(ItemOf(k, vw.entries[k]), call)
  BY DEF Hits, ItemOf
<1>7. /\ Altered(vw, event, call.value, new)
      /\ \A k \in DOMAIN vw.entries \ K : new.entries[k] = vw.entries[k]
  BY <1>1
<1>8. ASSUME NEW k \in K
      PROVE  ~Due(new, k, event)
  <2>1. k = call.key
    OBVIOUS
  <2> QED
    BY <1>1, <2>1
<1> HIDE DEF K
<1>4. All(new) = [i \in DOMAIN All(vw) |->
                     IF Moves(All(vw)[i], call, event)
                     THEN Stamped(All(vw)[i].key, call, event) ELSE All(vw)[i]]
  BY <1>2, <1>3, <1>7, <1>8, AlteredIs
<1>5. Adds(call) => HasKey(All(vw), call.key)
  BY <1>2, HasKeyIs DEF Adds
<1>6. Keeps(call)
  BY DEF Keeps, Sets
<1> QED
  BY <1>1, <1>4, <1>5, <1>6 DEF Plain

LEMMA AddIsPlain ==
    ASSUME NEW vw \in GoodViews, NEW call, Adds(call), call.key \in Keys, call.value \in Values,
           NEW event \in Events, ~IsFound(vw, call.key)
    PROVE  All(Outcome(add(vw, call.key, call.value, event), "Added").view) =
              Plain(All(vw), call, event)
<1>1. ~HasKey(All(vw), call.key)
  BY HasKeyIs DEF GoodViews
<1>2. All(add(vw, call.key, call.value, event)) =
        Append(All(vw), Stamped(call.key, call, event))
  BY AddedIs DEF IsFound
<1>3. Outcome(add(vw, call.key, call.value, event), "Added").view =
        add(vw, call.key, call.value, event)
  BY DEF Outcome
<1> QED
  BY <1>1, <1>2, <1>3 DEF Plain

LEMMA InsertIsPlain ==
    ASSUME NEW vw \in GoodViews, NEW call, call.kind = "Insert", call.key \in Keys,
           call.value \in Values, NEW event \in Events, NEW o,
           o = Insert(vw, event, call.key, call.value), o.outcome # "error"
    PROVE  All(o.view) = Plain(All(vw), call, event)
<1>1. CASE ~IsFound(vw, call.key)
  <2>1. o = Outcome(add(vw, call.key, call.value, event), "Added")
    BY <1>1 DEF Insert
  <2> QED
    BY <1>1, <2>1, AddIsPlain DEF Adds
<1>2. CASE IsFound(vw, call.key)
  <2>1. o = Outcome(vw, "error") \/ o = Outcome(vw, "AlreadyApplied")
    BY <1>2 DEF Insert
  <2>2. o.view = vw
    BY <2>1 DEF Outcome
  <2> DEFINE A == All(vw)
  <2>3. A \in Lists /\ HasKey(A, call.key)
    BY <1>2, AllIsList, HasKeyIs DEF GoodViews
  <2>4. Plain(A, call, event) = [i \in DOMAIN A |-> IF Moves(A[i], call, event)
                                     THEN Stamped(A[i].key, call, event) ELSE A[i]]
    BY <2>3 DEF Plain, Keeps
  <2> HIDE DEF A
  <2>5. \A i \in DOMAIN A : ~Moves(A[i], call, event)
    BY DEF Moves, Hits
  <2>6. A = [i \in 1 .. Len(A) |-> A[i]] /\ DOMAIN A = 1 .. Len(A)
    BY <2>3, ListFields
  <2>7. Plain(A, call, event) = A
    BY <2>4, <2>5, <2>6
  <2> QED
    BY <2>2, <2>7 DEF A
<1> QED
  BY <1>1, <1>2

LEMMA DeleteIsPlain ==
    ASSUME NEW vw \in GoodViews, NEW call, call.kind = "Delete", NEW event \in Events, NEW o,
           o = delete(vw, call.key, event)
    PROVE  All(o.view) = Plain(All(vw), call, event)
<1>1. PICK new \in GoodViews :
                              /\ o.view = new /\ Left(vw, new)
                              /\ \A k \in DOMAIN vw.entries \ DOMAIN new.entries :
                                    Due(vw, k, event) /\ k = call.key
                              /\ ~Due(new, call.key, event)
  <2>1. CASE /\ ~Due(vw, call.key, event)
             /\ \E x \in Names : delete(vw, call.key, event) = Outcome(vw, x)
    <3>1. o.view = vw
      BY <2>1 DEF Outcome
    <3>2. Left(vw, vw)
      BY DEF Left
    <3> QED
      BY <2>1, <3>1, <3>2
  <2>2. CASE \E new \in GoodViews :
                /\ call.key \in DOMAIN vw.entries /\ isNewerThan(event, vw.entries[call.key])
                /\ delete(vw, call.key, event) = Outcome(new, "Applied")
                /\ Left(vw, new) /\ DOMAIN new.entries = DOMAIN vw.entries \ {call.key}
                /\ new.hasIndex = vw.hasIndex
    <3>1. PICK new \in GoodViews :
                /\ call.key \in DOMAIN vw.entries /\ isNewerThan(event, vw.entries[call.key])
                /\ o = Outcome(new, "Applied")
                /\ Left(vw, new) /\ DOMAIN new.entries = DOMAIN vw.entries \ {call.key}
      BY <2>2
    <3>2. o.view = new
      BY <3>1 DEF Outcome
    <3> QED
      BY <3>1, <3>2 DEF Due
  <2> QED
    BY <2>1, <2>2, DeleteIs
<1>2. vw \in SoundViews /\ new \in SoundViews
  BY DEF GoodViews
<1> DEFINE K == {call.key}
<1>3. \A k \in DOMAIN vw.entries : k \in K <=> Hits(ItemOf(k, vw.entries[k]), call)
  BY DEF Hits, ItemOf
<1>5. \A k \in DOMAIN vw.entries \ DOMAIN new.entries : Due(vw, k, event) /\ k \in K
  BY <1>1
<1>6. ASSUME NEW k \in K
      PROVE  ~Due(new, k, event)
  <2>1. k = call.key
    OBVIOUS
  <2> QED
    BY <1>1, <2>1
<1> HIDE DEF K
<1>4. All(new) = Pick(All(vw), Stays(All(vw), call, event))
  BY <1>1, <1>2, <1>3, <1>5, <1>6, LeftStays
<1> QED
  BY <1>1, <1>4 DEF Plain, Adds, Keeps, Sets

LEMMA ChangeAllIsPlain ==
    ASSUME NEW vw \in GoodViews, NEW call, call.kind \in {"UpdateWhere", "IndexUpdate"},
           call.value \in Values, NEW event \in Events, NEW keys, NEW brokenKey,
           AreKeysOf(keys, ValueKeys(vw, call.match)), NEW o,
           o = changeAll(vw, keys, event, call.value, brokenKey), o.outcome # "error"
    PROVE  All(o.view) = Plain(All(vw), call, event)
<1> DEFINE K == ValueKeys(vw, call.match)
<1>1. Len(keys) \in Nat /\ \A k : k \in K <=> \E n \in 1 .. Len(keys) : keys[n] = k
  BY DEF AreKeysOf
<1>2. /\ o \in Results /\ Altered(vw, event, call.value, o.view)
      /\ Untouched(vw, keys, o.view)
      /\ \A n \in 1 .. Len(keys) : ~Due(o.view, keys[n], event)
  BY <1>1, ChangeAllIs
<1>3. PICK new \in GoodViews : new = o.view
  BY <1>2, ResultsAre
<1>4. vw \in SoundViews /\ new \in SoundViews
  BY DEF GoodViews
<1>5. \A k \in DOMAIN vw.entries : k \in K <=> Hits(ItemOf(k, vw.entries[k]), call)
  BY HitsByValue
<1> HIDE DEF K
<1>6. /\ Altered(vw, event, call.value, new)
      /\ \A k \in DOMAIN vw.entries \ K : new.entries[k] = vw.entries[k]
      /\ \A k \in K : ~Due(new, k, event)
  BY <1>1, <1>2, <1>3 DEF Untouched
<1>7. All(new) = [i \in DOMAIN All(vw) |->
                     IF Moves(All(vw)[i], call, event)
                     THEN Stamped(All(vw)[i].key, call, event) ELSE All(vw)[i]]
  BY <1>4, <1>5, <1>6, AlteredIs
<1> QED
  BY <1>3, <1>7 DEF Plain, Adds, Keeps, Sets

LEMMA DeleteAllIsPlain ==
    ASSUME NEW vw \in GoodViews, NEW call, call.kind \in {"DeleteWhere", "IndexDelete"},
           NEW event \in Events, NEW keys, AreKeysOf(keys, ValueKeys(vw, call.match)), NEW o,
           o = deleteAll(vw, keys, event)
    PROVE  All(o.view) = Plain(All(vw), call, event)
<1> DEFINE K == ValueKeys(vw, call.match)
<1>1. Len(keys) \in Nat /\ \A k : k \in K <=> \E n \in 1 .. Len(keys) : keys[n] = k
  BY DEF AreKeysOf
<1>2. /\ o \in Results /\ Left(vw, o.view)
      /\ Dropped(vw, keys, event, o.view)
      /\ \A n \in 1 .. Len(keys) : ~Due(o.view, keys[n], event)
  BY <1>1, DeleteAllIs
<1>3. PICK new \in GoodViews : new = o.view
  BY <1>2, ResultsAre
<1>4. vw \in SoundViews /\ new \in SoundViews
  BY DEF GoodViews
<1>5. \A k \in DOMAIN vw.entries : k \in K <=> Hits(ItemOf(k, vw.entries[k]), call)
  BY HitsByValue
<1> HIDE DEF K
<1>6. /\ \A k \in DOMAIN vw.entries \ DOMAIN new.entries : Due(vw, k, event) /\ k \in K
      /\ \A k \in K : ~Due(new, k, event)
  BY <1>1, <1>2, <1>3 DEF Dropped
<1>7. All(new) = Pick(All(vw), Stays(All(vw), call, event))
  BY <1>2, <1>3, <1>4, <1>5, <1>6, LeftStays
<1> QED
  BY <1>3, <1>7 DEF Plain, Adds, Keeps, Sets

LEMMA CalledIsPlain ==
    ASSUME view \in GoodViews, NEW call \in Calls, NEW event \in Events,
           NeedsIndex(call) => view.hasIndex, Called(call, event).outcome # "error"
    PROVE  All(Called(call, event).view) = Plain(All(view), call, event)
<1>1. PICK o : o = Called(call, event)
  OBVIOUS
<1>2. o.outcome # "error" /\ view \in SoundViews
  BY <1>1 DEF GoodViews
<1> SUFFICES All(o.view) = Plain(All(view), call, event)
  BY <1>1
<1>3. CASE call.kind = "Insert"
  <2>1. call.key \in Keys /\ call.value \in Values
    BY <1>3, CallFields
  <2>2. o = Insert(view, event, call.key, call.value)
    BY <1>1, <1>3 DEF Called
  <2> QED
    BY <1>2, <1>3, <2>1, <2>2, InsertIsPlain
<1>4. CASE call.kind = "Upsert"
  <2>1. call.key \in Keys /\ call.value \in Values
    BY <1>4, CallFields
  <2>2. PICK isBroken : o = Upsert(view, call.key, event, call.value, isBroken)
    BY <1>1, <1>4 DEF Called
  <2>3. CASE IsFound(view, call.key)
    <3>1. o = change(view, call.key, event, call.value, isBroken)
      BY <2>2, <2>3 DEF Upsert
    <3> QED
      BY <1>2, <1>4, <2>1, <2>3, <3>1, ChangeIsPlain
  <2>4. CASE ~IsFound(view, call.key)
    <3>1. o = Outcome(view, "error") \/ o = Outcome(add(view, call.key, call.value, event), "Added")
      BY <2>2, <2>4 DEF Upsert
    <3>2. Outcome(view, "error").outcome = "error"
      BY DEF Outcome
    <3>3. o = Outcome(add(view, call.key, call.value, event), "Added")
      BY <1>2, <3>1, <3>2
    <3> QED
      BY <1>4, <2>1, <2>4, <3>3, AddIsPlain DEF Adds
  <2> QED
    BY <2>3, <2>4
<1>5. CASE call.kind = "Update"
  <2>1. call.value \in Values
    BY <1>5, CallFields
  <2>2. PICK isBroken : o = change(view, call.key, event, call.value, isBroken)
    BY <1>1, <1>5 DEF Called
  <2> QED
    BY <1>2, <1>5, <2>1, <2>2, ChangeIsPlain
<1>6. CASE call.kind = "Delete"
  <2>1. o = delete(view, call.key, event)
    BY <1>1, <1>6 DEF Called
  <2> QED
    BY <1>6, <2>1, DeleteIsPlain
<1>7. CASE call.kind \in {"UpdateWhere", "IndexUpdate"}
  <2>1. call.match \in Values /\ call.value \in Values
    BY <1>7, CallFields
  <2>2. call.kind = "IndexUpdate" => view.hasIndex
    BY DEF NeedsIndex
  <2>3. PICK keys : /\ o = changeAll(view, keys, event, call.value, call.broken)
                    /\ AreKeysOf(keys, ValueKeys(view, call.match))
    BY <1>1, <1>2, <1>7, <2>1, <2>2, KeysAre DEF Called, UpdateWhere, IndexUpdate
  <2> QED
    BY <1>2, <1>7, <2>1, <2>3, ChangeAllIsPlain
<1>8. CASE call.kind \in {"DeleteWhere", "IndexDelete"}
  <2>1. call.match \in Values
    BY <1>8, CallFields
  <2>2. call.kind = "IndexDelete" => view.hasIndex
    BY DEF NeedsIndex
  <2>3. PICK keys : /\ o = deleteAll(view, keys, event)
                    /\ AreKeysOf(keys, ValueKeys(view, call.match))
    BY <1>1, <1>2, <1>8, <2>1, <2>2, KeysAre DEF Called, DeleteWhere, IndexDelete
  <2> QED
    BY <1>8, <2>3, DeleteAllIsPlain
<1> QED
  BY <1>3, <1>4, <1>5, <1>6, <1>7, <1>8, CallFields

\* The items of one sequence are among those of another, in the same order.
Within(B, A) ==
    \E g \in [DOMAIN B -> DOMAIN A] :
        /\ \A i, j \in DOMAIN B : i < j => g[i] < g[j]
        /\ \A i \in DOMAIN B : A[g[i]] = B[i]

LEMMA WithinItself ==
    ASSUME NEW A
    PROVE  Within(A, A)
<1> DEFINE g == [i \in DOMAIN A |-> i]
<1>1. g \in [DOMAIN A -> DOMAIN A] /\ \A i \in DOMAIN A : g[i] = i
  OBVIOUS
<1> HIDE DEF g
<1> QED
  BY <1>1 DEF Within

LEMMA WithinAll ==
    ASSUME NEW A \in Lists, NEW B \in Lists, Within(B, A), Items(A) \in SUBSET Items(B)
    PROVE  A = B
<1> DEFINE P == DOMAIN B
           Q == DOMAIN A
           M == Len(B)
           N == Len(A)
<1>1. /\ M \in Nat /\ P = 1 .. M /\ B = [i \in 1 .. M |-> B[i]]
      /\ N \in Nat /\ Q = 1 .. N /\ A = [i \in 1 .. N |-> A[i]] /\ IsDistinct(A)
  BY ListFields
<1>2. PICK g \in [P -> Q] : /\ \A i, j \in P : i < j => g[i] < g[j]
                            /\ \A i \in P : A[g[i]] = B[i]
  BY DEF Within
<1>3. \A q \in Q : \E p \in P : g[p] = q
  <2> SUFFICES ASSUME NEW q \in Q
               PROVE  \E p \in P : g[p] = q
    OBVIOUS
  <2>1. A[q] \in Items(B)
    BY DEF Items
  <2>2. PICK p \in P : B[p] = A[q]
    BY <2>1 DEF Items
  <2>3. A[g[p]] = A[q] /\ g[p] \in Q
    BY <1>2, <2>2
  <2> QED
    BY <1>1, <2>3 DEF IsDistinct
<1> HIDE DEF P, Q, M, N
<1>4. P \in SUBSET Nat /\ Q \in SUBSET Nat /\ IsFiniteSet(P) /\ Cardinality(P) = M
      /\ IsFiniteSet(Q) /\ Cardinality(Q) = N
  BY <1>1, FS_Interval
<1>5. /\ Cardinality(Q) = Cardinality(P)
      /\ \A n \in 1 .. Cardinality(P) : Nth(Q, n) = g[Nth(P, n)]
  BY <1>2, <1>3, <1>4, GrowingKeepsRanks
<1>6. M = N
  BY <1>4, <1>5
<1>7. \A n \in 1 .. M : Nth(P, n) = n /\ Nth(Q, n) = n
  BY <1>1, <1>6, NthOfAll
<1>8. \A n \in 1 .. M : g[n] = n
  BY <1>4, <1>5, <1>7
<1>9. \A n \in 1 .. M : A[n] = B[n]
  BY <1>1, <1>2, <1>8
<1>10. [i \in 1 .. M |-> A[i]] = [i \in 1 .. M |-> B[i]]
  BY <1>9
<1> QED
  BY <1>1, <1>6, <1>10

LEMMA PickOfList ==
    ASSUME NEW A \in Lists, NEW J \in SUBSET DOMAIN A
    PROVE  /\ J \in SUBSET Nat /\ IsFiniteSet(J) /\ Cardinality(J) \in Nat
           /\ DOMAIN Pick(A, J) = 1 .. Cardinality(J)
           /\ \A n \in 1 .. Cardinality(J) : Nth(J, n) \in J /\ Pick(A, J)[n] = A[Nth(J, n)]
<1>1. DOMAIN A = 1 .. Len(A) /\ Len(A) \in Nat
  BY ListFields
<1>2. IsFiniteSet(J)
  <2>1. IsFiniteSet(1 .. Len(A))
    BY <1>1, FS_Interval
  <2> QED
    BY <1>1, <2>1, FS_Subset
<1>3. J \in SUBSET Nat
  BY <1>1
<1>4. Cardinality(J) \in Nat
  BY <1>2, FS_CardinalityType
<1>5. \A n \in 1 .. Cardinality(J) : Nth(J, n) \in J
  BY <1>2, <1>3, NthIs
<1>6. /\ DOMAIN Pick(A, J) = 1 .. Cardinality(J)
      /\ \A n \in 1 .. Cardinality(J) : Pick(A, J)[n] = A[Nth(J, n)]
  BY DEF Pick
<1> QED
  BY <1>2, <1>3, <1>4, <1>5, <1>6

LEMMA ItemsOfPick ==
    ASSUME NEW A \in Lists, NEW J \in SUBSET DOMAIN A
    PROVE  Items(Pick(A, J)) = {A[j] : j \in J}
<1> DEFINE R == Pick(A, J)
<1>1. /\ J \in SUBSET Nat /\ IsFiniteSet(J) /\ DOMAIN R = 1 .. Cardinality(J)
      /\ \A n \in 1 .. Cardinality(J) : Nth(J, n) \in J /\ R[n] = A[Nth(J, n)]
  BY PickOfList
<1> HIDE DEF R
<1>2. \A n \in DOMAIN R : R[n] \in {A[j] : j \in J}
  BY <1>1
<1>3. ASSUME NEW j \in J
      PROVE  \E n \in DOMAIN R : R[n] = A[j]
  <2>1. PICK n \in 1 .. Cardinality(J) : n = Cardinality(Upto(J, j))
    BY <1>1, RankBounds
  <2>2. Nth(J, n) = j
    BY <1>1, <2>1, NthOfRank
  <2> QED
    BY <1>1, <2>2
<1>4. Items(R) = {A[j] : j \in J}
  BY <1>2, <1>3 DEF Items
<1> QED
  BY <1>4 DEF R

\* The three forms that a call can take.
Appends(A, call, event, R) ==
    Adds(call) /\ ~HasKey(A, call.key) /\ R = Append(A, Stamped(call.key, call, event))

Resets(A, call, event, R) ==
    /\ Adds(call) => HasKey(A, call.key)
    /\ Keeps(call) /\ DOMAIN R = DOMAIN A
    /\ \A i \in DOMAIN A : R[i] = IF Moves(A[i], call, event)
                                  THEN Stamped(A[i].key, call, event) ELSE A[i]

Deletes(A, call, event, R) ==
    ~Keeps(call) /\ ~Adds(call) /\ R = Pick(A, Stays(A, call, event))

LEMMA PlainForms ==
    ASSUME NEW A, NEW call, NEW event
    PROVE  LET R == Plain(A, call, event)
           IN  Appends(A, call, event, R) \/ Resets(A, call, event, R) \/ Deletes(A, call, event, R)
<1> DEFINE R == Plain(A, call, event)
           reset == [i \in DOMAIN A |-> IF Moves(A[i], call, event)
                                        THEN Stamped(A[i].key, call, event) ELSE A[i]]
<1>1. R = IF Adds(call) /\ ~HasKey(A, call.key) THEN Append(A, Stamped(call.key, call, event))
          ELSE IF Keeps(call) THEN reset ELSE Pick(A, Stays(A, call, event))
  BY DEF Plain
<1>2. /\ DOMAIN reset = DOMAIN A
      /\ \A i \in DOMAIN A : reset[i] = IF Moves(A[i], call, event)
                                        THEN Stamped(A[i].key, call, event) ELSE A[i]
  OBVIOUS
<1>3. Adds(call) => Keeps(call)
  BY DEF Adds, Keeps, Sets
<1> HIDE DEF reset, R
<1>4. CASE Adds(call) /\ ~HasKey(A, call.key)
  BY <1>1, <1>4 DEF Appends, R
<1>5. CASE ~(Adds(call) /\ ~HasKey(A, call.key)) /\ Keeps(call)
  <2>1. R = reset
    BY <1>1, <1>5
  <2>2. Resets(A, call, event, R)
    BY <1>2, <1>5, <2>1 DEF Resets
  <2> QED
    BY <2>2 DEF R
<1>6. CASE ~Adds(call) /\ ~Keeps(call)
  BY <1>1, <1>6 DEF Deletes, R
<1> QED
  BY <1>3, <1>4, <1>5, <1>6

LEMMA AppendOfList ==
    ASSUME NEW A \in Lists, NEW x, NEW R, R = Append(A, x)
    PROVE  /\ DOMAIN R = 1 .. Len(A) + 1 /\ R[Len(A) + 1] = x
           /\ DOMAIN A = 1 .. Len(A) /\ Len(A) \in Nat
           /\ \A i \in DOMAIN A : R[i] = A[i] /\ i \in DOMAIN R
           /\ Items(R) = Items(A) \cup {x}
<1> DEFINE S == Item \cup {x}
<1>1. A \in Seq(Item) /\ DOMAIN A = 1 .. Len(A) /\ Len(A) \in Nat /\ \A i \in DOMAIN A : A[i] \in S
  BY ListFields
<1>2. A \in Seq(S) /\ x \in S
  <2> HIDE DEF Item
  <2> QED
    BY <1>1
<1> HIDE DEF S
<1>3. /\ DOMAIN R = 1 .. Len(A) + 1 /\ R[Len(A) + 1] = x
      /\ \A i \in 1 .. Len(A) : R[i] = A[i]
  BY <1>1, <1>2
<1>4. \A i \in DOMAIN A : R[i] = A[i] /\ i \in DOMAIN R
  BY <1>1, <1>3
<1>5. Items(R) = Items(A) \cup {x}
  <2>1. \A i \in DOMAIN R : i \in DOMAIN A \/ i = Len(A) + 1
    BY <1>1, <1>3
  <2>2. Len(A) + 1 \in DOMAIN R
    BY <1>1, <1>3
  <2> QED
    BY <1>3, <1>4, <2>1, <2>2 DEF Items
<1> QED
  BY <1>1, <1>3, <1>4, <1>5

LEMMA WithinPlain ==
    ASSUME NEW A \in Lists, NEW B, NEW call, NEW event, Within(B, A),
           \A x \in Items(B) : ~Moves(x, call, event)
    PROVE  Within(B, Plain(A, call, event))
<1>1. PICK R : R = Plain(A, call, event)
  OBVIOUS
<1>2. PICK g \in [DOMAIN B -> DOMAIN A] : /\ \A i, j \in DOMAIN B : i < j => g[i] < g[j]
                                          /\ \A i \in DOMAIN B : A[g[i]] = B[i]
  BY DEF Within
<1>3. \A i \in DOMAIN B : ~Moves(A[g[i]], call, event) /\ g[i] \in DOMAIN A
  BY <1>2 DEF Items
<1>4. CASE Appends(A, call, event, R)
  <2>1. \A i \in DOMAIN A : R[i] = A[i] /\ i \in DOMAIN R
    BY <1>4, AppendOfList DEF Appends
  <2>2. g \in [DOMAIN B -> DOMAIN R] /\ \A i \in DOMAIN B : R[g[i]] = B[i]
    BY <1>2, <2>1
  <2> QED
    BY <1>1, <1>2, <2>2 DEF Within
<1>5. CASE Resets(A, call, event, R)
  <2>1. DOMAIN R = DOMAIN A /\ \A i \in DOMAIN B : R[g[i]] = B[i]
    BY <1>2, <1>3, <1>5 DEF Resets
  <2> QED
    BY <1>1, <1>2, <2>1 DEF Within
<1>6. CASE Deletes(A, call, event, R)
  <2> DEFINE J == Stays(A, call, event)
             h == [i \in DOMAIN B |-> Cardinality(Upto(J, g[i]))]
  <2>1. J \in SUBSET DOMAIN A /\ \A i \in DOMAIN B : g[i] \in J
    BY <1>3 DEF Stays
  <2>2. R = Pick(A, J)
    BY <1>6 DEF Deletes
  <2> HIDE DEF J
  <2>3. /\ J \in SUBSET Nat /\ IsFiniteSet(J) /\ DOMAIN R = 1 .. Cardinality(J)
        /\ \A n \in 1 .. Cardinality(J) : R[n] = A[Nth(J, n)]
    BY <2>1, <2>2, PickOfList
  <2>4. ASSUME NEW i \in DOMAIN B
        PROVE  h[i] \in DOMAIN R /\ R[h[i]] = B[i]
    <3>1. h[i] = Cardinality(Upto(J, g[i])) /\ g[i] \in J
      BY <2>1
    <3> HIDE DEF h
    <3>2. h[i] \in DOMAIN R
      BY <2>3, <3>1, RankBounds
    <3>3. Nth(J, h[i]) = g[i]
      BY <2>3, <3>1, NthOfRank
    <3> QED
      BY <1>2, <2>3, <3>2, <3>3
  <2>5. ASSUME NEW i \in DOMAIN B, NEW j \in DOMAIN B, i < j
        PROVE  h[i] < h[j]
    <3>1. g[i] \in J /\ g[j] \in J /\ g[i] < g[j]
      BY <1>2, <2>1, <2>5
    <3> QED
      BY <2>3, <3>1, RanksGrow
  <2>6. h \in [DOMAIN B -> DOMAIN R]
    BY <2>4
  <2> HIDE DEF h
  <2> QED
    BY <1>1, <2>4, <2>5, <2>6 DEF Within
<1> QED
  BY <1>1, <1>4, <1>5, <1>6, PlainForms

\* Where the items come from that are there after a call.
LEMMA ItemsOfPlain ==
    ASSUME NEW A \in Lists, NEW call, NEW event, NEW x \in Items(Plain(A, call, event))
    PROVE  \/ x \in Items(A) /\ ~Moves(x, call, event)
           \/ /\ Sets(call)
              /\ \E y \in Items(A) : Moves(y, call, event) /\ x = Stamped(y.key, call, event)
           \/ Adds(call) /\ x = Stamped(call.key, call, event)
<1>1. PICK R : R = Plain(A, call, event)
  OBVIOUS
<1>2. x \in Items(R)
  BY <1>1
<1>3. CASE Appends(A, call, event, R)
  <2>1. /\ Adds(call) /\ ~HasKey(A, call.key)
        /\ x \in Items(A) \/ x = Stamped(call.key, call, event)
    <3>1. PICK new : new = Stamped(call.key, call, event)
      OBVIOUS
    <3>2. Adds(call) /\ ~HasKey(A, call.key) /\ R = Append(A, new)
      BY <1>3, <3>1 DEF Appends
    <3>3. Items(R) = Items(A) \cup {new}
      BY <3>2, AppendOfList
    <3> QED
      BY <1>2, <3>1, <3>2, <3>3
  <2>2. x \in Items(A) => ~Moves(x, call, event)
    <3>1. x \in Items(A) => x.key # call.key
      BY <2>1 DEF Items, HasKey
    <3> QED
      BY <2>1, <3>1 DEF Moves, Hits, Adds
  <2> QED
    BY <2>1, <2>2
<1>4. CASE Resets(A, call, event, R)
  <2>1. PICK i \in DOMAIN A : x = R[i]
    BY <1>2, <1>4 DEF Items, Resets
  <2>2. A[i] \in Items(A)
    BY DEF Items
  <2>3. R[i] = IF Moves(A[i], call, event) THEN Stamped(A[i].key, call, event) ELSE A[i]
    BY <1>4 DEF Resets
  <2>4. Moves(A[i], call, event) => Sets(call)
    BY <1>4 DEF Resets, Keeps, Moves, Hits
  <2>5. CASE Moves(A[i], call, event)
    <3>1. Sets(call) /\ x = Stamped(A[i].key, call, event)
      BY <2>1, <2>3, <2>4, <2>5
    <3> QED
      BY <2>2, <2>5, <3>1
  <2>6. CASE ~Moves(A[i], call, event)
    <3>1. x = A[i]
      BY <2>1, <2>3, <2>6
    <3> QED
      BY <2>2, <2>6, <3>1
  <2> QED
    BY <2>5, <2>6
<1>5. CASE Deletes(A, call, event, R)
  <2>1. Stays(A, call, event) \in SUBSET DOMAIN A
    BY DEF Stays
  <2>2. PICK j \in Stays(A, call, event) : x = A[j]
    BY <1>2, <1>5, <2>1, ItemsOfPick DEF Deletes
  <2> QED
    BY <2>2 DEF Stays, Items
<1> QED
  BY <1>1, <1>3, <1>4, <1>5, PlainForms

\* What a call makes of a set of items.
Follows(call, event, X, Y) ==
    /\ \A x \in X : ~Moves(x, call, event) => x \in Y
    /\ \A x \in X : Moves(x, call, event) /\ Sets(call) => Stamped(x.key, call, event) \in Y
    /\ Adds(call) => Stamped(call.key, call, event) \in Y

LEMMA PlainFollows ==
    ASSUME NEW A \in Lists, NEW call, NEW event,
           \A y \in Items(A) : Adds(call) /\ y.key = call.key => Moves(y, call, event)
    PROVE  Follows(call, event, Items(A), Items(Plain(A, call, event)))
<1>1. PICK R : R = Plain(A, call, event)
  OBVIOUS
<1> SUFFICES Follows(call, event, Items(A), Items(R))
  BY <1>1
<1>2. CASE Appends(A, call, event, R)
  <2>1. Adds(call) /\ ~HasKey(A, call.key)
        /\ Items(R) = Items(A) \cup {Stamped(call.key, call, event)}
    BY <1>2, AppendOfList DEF Appends
  <2>2. \A x \in Items(A) : ~Moves(x, call, event)
    <3>1. \A x \in Items(A) : x.key # call.key
      BY <2>1 DEF Items, HasKey
    <3> QED
      BY <2>1, <3>1 DEF Moves, Hits, Adds
  <2> QED
    BY <2>1, <2>2 DEF Follows
<1>3. CASE Resets(A, call, event, R)
  <2>1. DOMAIN R = DOMAIN A
    BY <1>3 DEF Resets
  <2>2. ASSUME NEW x \in Items(A)
        PROVE  (IF Moves(x, call, event) THEN Stamped(x.key, call, event) ELSE x) \in Items(R)
    <3>1. PICK i \in DOMAIN A : x = A[i]
      BY DEF Items
    <3>2. R[i] = IF Moves(x, call, event) THEN Stamped(x.key, call, event) ELSE x
      BY <1>3, <3>1 DEF Resets
    <3> QED
      BY <2>1, <3>2 DEF Items
  <2>3. Adds(call) => Stamped(call.key, call, event) \in Items(R)
    <3> SUFFICES ASSUME Adds(call)
                 PROVE  Stamped(call.key, call, event) \in Items(R)
      OBVIOUS
    <3>1. PICK i \in DOMAIN A : A[i].key = call.key
      BY <1>3 DEF Resets, HasKey
    <3>2. A[i] \in Items(A)
      BY DEF Items
    <3>3. Moves(A[i], call, event)
      BY <3>1, <3>2
    <3> QED
      BY <2>2, <3>1, <3>2, <3>3
  <2> QED
    BY <2>2, <2>3 DEF Follows
<1>4. CASE Deletes(A, call, event, R)
  <2>1. Stays(A, call, event) \in SUBSET DOMAIN A
    BY DEF Stays
  <2>2. Items(R) = {A[j] : j \in Stays(A, call, event)}
    BY <1>4, <2>1, ItemsOfPick DEF Deletes
  <2>3. \A x \in Items(A) : ~Moves(x, call, event) => x \in Items(R)
    BY <2>2 DEF Stays, Items
  <2>4. ~Sets(call) /\ ~Adds(call)
    BY <1>4 DEF Deletes, Keeps
  <2> QED
    BY <2>3, <2>4 DEF Follows
<1> QED
  BY <1>1, <1>2, <1>3, <1>4, PlainForms
-----------------------------------------------------------------------------
(***************************************************************************)
(* The handlers have made the calls made for event n; A are the items of   *)
(* the view, B those that there were, had every call been made just once,  *)
(* and the k-th of the calls is next.  The j-th of the sets is what the    *)
(* items would be before the j-th call, each call made once.               *)
(***************************************************************************)
Made == [call : Calls, part : Nat]

EventOf(n, made) == [number |-> n, part |-> made.part]

\* A call leaves alone what it, or a later call, has left behind.
History(sets, cs, n, A, k, B) ==
    /\ sets[Len(cs) + 1] = Items(B)
    /\ \A j \in DOMAIN cs : Follows(cs[j].call, EventOf(n, cs[j]), sets[j], sets[j + 1])
    /\ \A j, s \in DOMAIN cs : j <= s =>
          \A x \in sets[s + 1] : ~Moves(x, cs[j].call, EventOf(n, cs[j]))
    /\ \A x \in Items(A) : \E s \in k .. Len(cs) + 1 : x \in sets[s]

Retriable(cs, n, A, k, B) ==
    /\ B \in Lists /\ Within(B, A) /\ k <= Len(cs) + 1
    /\ \A i, j \in DOMAIN cs : i <= j => cs[i].part <= cs[j].part
    /\ \A x \in Items(B) : \/ x.number < n
                           \/ x.number = n /\ \E j \in DOMAIN cs : x.part <= cs[j].part
    /\ \E sets : History(sets, cs, n, A, k, B)

RetryInv ==
    /\ pc = "idle" => Retriable(<<>>, number + 1, All(view), 1, once)
    /\ pc = "applying" => Retriable(calls, number, All(view), next, once)

LEMMA ThroughIsOnce ==
    ASSUME NEW cs, Len(cs) \in Nat, NEW n, NEW A \in Lists, NEW k, NEW B, k = Len(cs) + 1,
           Retriable(cs, n, A, k, B)
    PROVE  A = B
<1>1. B \in Lists /\ Within(B, A)
  BY DEF Retriable
<1>2. PICK sets : History(sets, cs, n, A, k, B)
  BY DEF Retriable
<1>3. /\ sets[Len(cs) + 1] = Items(B)
      /\ \A x \in Items(A) : \E s \in k .. Len(cs) + 1 : x \in sets[s]
  BY <1>2 DEF History
<1>4. \A s \in k .. Len(cs) + 1 : s = Len(cs) + 1
  OBVIOUS
<1>5. Items(A) \in SUBSET Items(B)
  BY <1>3, <1>4
<1> QED
  BY <1>1, <1>5, WithinAll

LEMMA NothingMade ==
    ASSUME NEW n, NEW A \in Lists, \A x \in Items(A) : x.number < n
    PROVE  Retriable(<<>>, n, A, 1, A)
<1> DEFINE sets == [s \in {1} |-> Items(A)]
<1>1. Len(<<>>) = 0 /\ DOMAIN <<>> = {}
  OBVIOUS
<1>2. sets[1] = Items(A)
  OBVIOUS
<1> HIDE DEF sets
<1>3. PICK cs : cs = <<>> /\ Len(cs) = 0 /\ DOMAIN cs = {}
  BY <1>1
<1>4. History(sets, cs, n, A, 1, A)
  BY <1>2, <1>3 DEF History
<1>5. Retriable(cs, n, A, 1, A)
  BY <1>3, <1>4, WithinItself DEF Retriable
<1> QED
  BY <1>3, <1>5

LEMMA AllOverAgain ==
    ASSUME NEW cs, Len(cs) \in Nat, NEW n, NEW A, NEW k \in Nat \ {0}, NEW B,
           Retriable(cs, n, A, k, B)
    PROVE  Retriable(cs, n, A, 1, B)
<1>1. PICK sets : History(sets, cs, n, A, k, B)
  BY DEF Retriable
<1>2. \A s \in k .. Len(cs) + 1 : s \in 1 .. Len(cs) + 1
  OBVIOUS
<1>3. History(sets, cs, n, A, 1, B)
  BY <1>1, <1>2 DEF History
<1> QED
  BY <1>3 DEF Retriable

\* A call that has been made before changes nothing of what comes after it.
LEMMA MadeAgain ==
    ASSUME NEW cs, Len(cs) \in Nat, DOMAIN cs = 1 .. Len(cs), NEW n, NEW A \in Lists,
           NEW k \in DOMAIN cs, NEW B, Retriable(cs, n, A, k, B),
           NEW R, R = Plain(A, cs[k].call, EventOf(n, cs[k]))
    PROVE  Retriable(cs, n, R, k + 1, B)
<1> DEFINE call == cs[k].call
           event == EventOf(n, cs[k])
           m == Len(cs)
<1>1. PICK sets : History(sets, cs, n, A, k, B)
  BY DEF Retriable
<1>2. /\ sets[m + 1] = Items(B)
      /\ Follows(call, event, sets[k], sets[k + 1])
      /\ \A s \in DOMAIN cs : k <= s => \A x \in sets[s + 1] : ~Moves(x, call, event)
      /\ \A x \in Items(A) : \E s \in k .. m + 1 : x \in sets[s]
  BY <1>1 DEF History
<1>3. k \in Nat /\ k <= m /\ k >= 1 /\ m \in DOMAIN cs
  OBVIOUS
<1>4. R = Plain(A, call, event)
  OBVIOUS
<1> HIDE DEF call, event
<1>5. Within(B, R)
  <2>1. \A x \in Items(B) : ~Moves(x, call, event)
    BY <1>2, <1>3
  <2>2. Within(B, A)
    BY DEF Retriable
  <2> QED
    BY <1>4, <2>1, <2>2, WithinPlain
<1>6. ASSUME NEW x \in Items(A)
      PROVE  \/ Moves(x, call, event) /\ x \in sets[k]
             \/ ~Moves(x, call, event) /\ \E s \in k + 1 .. m + 1 : x \in sets[s]
  <2>1. PICK s \in k .. m + 1 : x \in sets[s]
    BY <1>2
  <2>2. CASE s = k
    <3>1. x \in sets[k]
      BY <2>1, <2>2
    <3>2. ~Moves(x, call, event) => x \in sets[k + 1]
      BY <1>2, <3>1 DEF Follows
    <3>3. k + 1 \in k + 1 .. m + 1
      BY <1>3
    <3> QED
      BY <3>1, <3>2, <3>3
  <2>3. CASE s # k
    <3>1. s \in k + 1 .. m + 1 /\ s - 1 \in DOMAIN cs /\ k <= s - 1 /\ (s - 1) + 1 = s
      BY <1>3, <2>3
    <3>2. ~Moves(x, call, event)
      BY <1>2, <2>1, <3>1
    <3> QED
      BY <2>1, <3>1, <3>2
  <2> QED
    BY <2>2, <2>3
<1>7. ASSUME NEW x \in Items(R)
      PROVE  \E s \in k + 1 .. m + 1 : x \in sets[s]
  <2>1. k + 1 \in k + 1 .. m + 1
    BY <1>3
  <2>2. CASE x \in Items(A) /\ ~Moves(x, call, event)
    BY <1>6, <2>2
  <2>3. CASE /\ Sets(call)
             /\ \E y \in Items(A) : Moves(y, call, event) /\ x = Stamped(y.key, call, event)
    <3>1. PICK y \in Items(A) : Moves(y, call, event) /\ x = Stamped(y.key, call, event)
      BY <2>3
    <3>2. y \in sets[k]
      BY <1>6, <3>1
    <3>3. x \in sets[k + 1]
      BY <1>2, <2>3, <3>1, <3>2 DEF Follows
    <3> QED
      BY <2>1, <3>3
  <2>4. CASE Adds(call) /\ x = Stamped(call.key, call, event)
    <3>1. x \in sets[k + 1]
      BY <1>2, <2>4 DEF Follows
    <3> QED
      BY <2>1, <3>1
  <2> QED
    BY <1>4, <2>2, <2>3, <2>4, ItemsOfPlain
<1>8. History(sets, cs, n, R, k + 1, B)
  BY <1>1, <1>7 DEF History
<1>9. k + 1 <= Len(cs) + 1
  BY <1>3
<1> QED
  BY <1>5, <1>8, <1>9 DEF Retriable

LEMMA NotOlder ==
    ASSUME NEW n \in Nat, NEW p \in Nat, NEW q \in Nat, p <= q, NEW x,
           x.number = n, x.part = q, NEW call, NEW made, made.part = p
    PROVE  ~Moves(x, call, EventOf(n, made))
BY DEF Moves, isNewerThan, EventOf

\* The handlers make a call for the first time, all before having been made.
LEMMA MadeFirst ==
    ASSUME NEW cs \in Seq(Made), NEW n \in Nat, NEW A \in Lists, NEW B,
           Retriable(cs, n, A, Len(cs) + 1, B), NEW made \in Made,
           \A j \in DOMAIN cs : cs[j].part <= made.part,
           \A y \in Items(A) : Adds(made.call) /\ y.key = made.call.key =>
                                  Moves(y, made.call, EventOf(n, made)),
           NEW R \in Lists, R = Plain(A, made.call, EventOf(n, made)),
           NEW cs2, cs2 = Append(cs, made)
    PROVE  Retriable(cs2, n, R, Len(cs2) + 1, R)
<1> DEFINE m == Len(cs)
           call == made.call
           event == EventOf(n, made)
<1>1. /\ m \in Nat /\ DOMAIN cs = 1 .. m /\ \A j \in DOMAIN cs : cs[j] \in Made
      /\ Len(cs2) = m + 1 /\ DOMAIN cs2 = 1 .. m + 1 /\ cs2[m + 1] = made
      /\ \A j \in DOMAIN cs : cs2[j] = cs[j] /\ j \in Nat
  <2> HIDE DEF Made
  <2> QED
    OBVIOUS
<1>2. made.part \in Nat /\ \A j \in DOMAIN cs : cs[j].part \in Nat
  BY <1>1 DEF Made
<1>3. A = B
  BY <1>1, ThroughIsOnce
<1>4. PICK sets : History(sets, cs, n, A, m + 1, B)
  BY DEF Retriable
<1>5. /\ sets[m + 1] = Items(A)
      /\ \A j \in DOMAIN cs : Follows(cs[j].call, EventOf(n, cs[j]), sets[j], sets[j + 1])
      /\ \A j, s \in DOMAIN cs : j <= s =>
            \A x \in sets[s + 1] : ~Moves(x, cs[j].call, EventOf(n, cs[j]))
  BY <1>3, <1>4 DEF History
<1> DEFINE more == [s \in 1 .. m + 2 |-> IF s = m + 2 THEN Items(R) ELSE sets[s]]
<1>6. more[m + 2] = Items(R) /\ \A s \in 1 .. m + 1 : more[s] = sets[s]
  BY <1>1
<1>7. R = Plain(A, call, event) /\ event.number = n /\ event.part = made.part
  BY DEF EventOf
<1>8. Follows(call, event, Items(A), Items(R))
  BY PlainFollows
<1> HIDE DEF more, call, event
<1>9. \A j \in DOMAIN cs2 : j \in DOMAIN cs \/ j = m + 1
  BY <1>1
<1>10. ASSUME NEW i \in DOMAIN cs2, NEW j \in DOMAIN cs2, i <= j
       PROVE  cs2[i].part <= cs2[j].part
  <2>1. CASE j \in DOMAIN cs
    <3>1. i \in DOMAIN cs
      BY <1>1, <1>10, <2>1
    <3> QED
      BY <1>1, <1>10, <2>1, <3>1 DEF Retriable
  <2>2. CASE j = m + 1
    <3>1. CASE i \in DOMAIN cs
      BY <1>1, <2>2, <3>1
    <3>2. CASE i = m + 1
      BY <1>1, <1>2, <2>2, <3>2
    <3> QED
      BY <1>9, <3>1, <3>2
  <2> QED
    BY <1>9, <2>1, <2>2
<1>11. \A j \in DOMAIN cs2 : cs2[j].part \in Nat /\ cs2[j].part <= made.part
  BY <1>1, <1>2, <1>9
<1>12. ASSUME NEW x \in Items(R)
       PROVE  \/ x \in Items(A) /\ ~Moves(x, call, event)
              \/ x.number = n /\ x.part = made.part
  <2>1. \A key : /\ Stamped(key, call, event).number = n
                 /\ Stamped(key, call, event).part = made.part
    BY <1>7 DEF Stamped
  <2> QED
    BY <1>7, <2>1, ItemsOfPlain
<1>13. ASSUME NEW x \in Items(R)
       PROVE  \/ x.number < n
              \/ x.number = n /\ \E j \in DOMAIN cs2 : x.part <= cs2[j].part
  <2>1. CASE x \in Items(A)
    <3>1. \/ x.number < n
          \/ x.number = n /\ \E j \in DOMAIN cs : x.part <= cs[j].part
      BY <1>3, <2>1 DEF Retriable
    <3>2. \A j \in DOMAIN cs : j \in DOMAIN cs2 /\ cs2[j] = cs[j]
      BY <1>1
    <3> QED
      BY <3>1, <3>2
  <2>2. CASE x.number = n /\ x.part = made.part
    <3>1. m + 1 \in DOMAIN cs2 /\ cs2[m + 1].part = made.part /\ made.part <= made.part
      BY <1>1, <1>2
    <3> QED
      BY <2>2, <3>1
  <2> QED
    BY <1>12, <2>1, <2>2
<1>14. ASSUME NEW j \in DOMAIN cs2
       PROVE  Follows(cs2[j].call, EventOf(n, cs2[j]), more[j], more[j + 1])
  <2>1. CASE j \in DOMAIN cs
    <3>1. j \in 1 .. m + 1 /\ j + 1 \in 1 .. m + 1 /\ cs2[j] = cs[j]
      BY <1>1, <2>1
    <3>2. more[j] = sets[j] /\ more[j + 1] = sets[j + 1]
      BY <1>6, <3>1
    <3> QED
      BY <1>5, <2>1, <3>1, <3>2
  <2>2. CASE j = m + 1
    <3>1. /\ j + 1 = m + 2 /\ j \in 1 .. m + 1 /\ cs2[j] = made
      BY <1>1, <2>2
    <3>2. more[j] = Items(A) /\ more[j + 1] = Items(R)
      BY <1>5, <1>6, <2>2, <3>1
    <3> QED
      BY <1>8, <3>1, <3>2 DEF call, event
  <2> QED
    BY <1>9, <2>1, <2>2
<1>15. ASSUME NEW j \in DOMAIN cs2, NEW s \in DOMAIN cs2, j <= s, NEW x \in more[s + 1]
       PROVE  ~Moves(x, cs2[j].call, EventOf(n, cs2[j]))
  <2>1. CASE s \in DOMAIN cs
    <3>1. j \in DOMAIN cs /\ s + 1 \in 1 .. m + 1 /\ cs2[j] = cs[j]
      BY <1>1, <1>15, <2>1
    <3>2. x \in sets[s + 1]
      BY <1>6, <1>15, <3>1
    <3> QED
      BY <1>5, <1>15, <2>1, <3>1, <3>2
  <2>2. CASE s = m + 1
    <3>1. x \in Items(R)
      <4>1. s + 1 = m + 2
        BY <1>1, <2>2
      <4> QED
        BY <1>6, <1>15, <4>1
    <3>2. CASE x.number = n /\ x.part = made.part
      BY <1>2, <1>11, <3>2, NotOlder
    <3>3. CASE x \in Items(A) /\ ~Moves(x, call, event)
      <4>1. CASE j = m + 1
        BY <1>1, <3>3, <4>1 DEF call, event
      <4>2. CASE j \in DOMAIN cs
        <5>1. m \in DOMAIN cs /\ j <= m /\ cs2[j] = cs[j]
          BY <1>1, <4>2
        <5> QED
          BY <1>5, <3>3, <4>2, <5>1
      <4> QED
        BY <1>9, <4>1, <4>2
    <3> QED
      BY <1>12, <3>1, <3>2, <3>3
  <2> QED
    BY <1>9, <2>1, <2>2
<1>16. \A x \in Items(R) : \E s \in Len(cs2) + 1 .. Len(cs2) + 1 : x \in more[s]
  <2>1. Len(cs2) + 1 = m + 2 /\ m + 2 \in m + 2 .. m + 2
    BY <1>1
  <2> QED
    BY <1>6, <2>1
<1>17. more[Len(cs2) + 1] = Items(R)
  <2>1. Len(cs2) + 1 = m + 2
    BY <1>1
  <2> QED
    BY <1>6, <2>1
<1>18. History(more, cs2, n, R, Len(cs2) + 1, R)
  BY <1>14, <1>15, <1>16, <1>17 DEF History
<1>19. Len(cs2) + 1 <= Len(cs2) + 1
  BY <1>1
<1> QED
  BY <1>10, <1>13, <1>18, <1>19, WithinItself DEF Retriable

LEMMA TakeIsPlain ==
    ASSUME ViewInv, NEW made \in Made, NeedsIndex(made.call) => view.hasIndex,
           pc = "applying", Take(made.call, made.part), pc' = "applying"
    PROVE  LET R == Plain(All(view), made.call, EventOf(number, made))
           IN  /\ All(view) \in Lists /\ R \in Lists /\ All(view') = R
               /\ Called(made.call, EventOf(number, made)).outcome # "error"
<1> DEFINE call == made.call
           event == EventOf(number, made)
           o == Called(call, event)
<1>1. call \in Calls /\ made.part \in Nat /\ view \in GoodViews /\ number \in Nat
  BY DEF Made, ViewInv
<1>2. event = [number |-> number, part |-> made.part] /\ event \in Events
  BY <1>1 DEF EventOf, Events
<1>3. view' = o.view /\ pc' = IF o.outcome = "error" THEN "stopped" ELSE pc
  BY <1>2 DEF Take
<1>4. o.outcome # "error"
  BY <1>3
<1> HIDE DEF event
<1>5. All(o.view) = Plain(All(view), call, event)
  BY <1>1, <1>2, <1>4, CalledIsPlain
<1>6. view' \in GoodViews
  BY <1>1, TakeMoves
<1>7. All(view') = Plain(All(view), call, event)
  BY <1>3, <1>5
<1>8. All(view) \in Lists /\ All(view') \in Lists
  BY <1>1, <1>6, AllIsList DEF GoodViews
<1> HIDE DEF o
<1> QED
  BY <1>4, <1>7, <1>8 DEF o, event

\* What the handlers insert or upsert for the first time, and is there already,
\* is older, unless AddsAgain.
LEMMA NotRepeated ==
    ASSUME ViewInv, NEW made \in Made, ~IsRepeated(made.call, made.part),
           Called(made.call, EventOf(number, made)).outcome # "error",
           \A x \in Items(All(view)) : x.number < number \/ (x.number = number /\ x.part <= made.part),
           NEW y \in Items(All(view)), Adds(made.call), y.key = made.call.key
    PROVE  Moves(y, made.call, EventOf(number, made))
<1> DEFINE call == made.call
           event == EventOf(number, made)
           entry == view.entries[call.key]
<1>1. view \in SoundViews /\ view \in Views /\ number \in Nat /\ made.part \in Nat
  BY DEF ViewInv, GoodViews, SoundViews, Made
<1>2. call.key \in DOMAIN view.entries /\ y = ItemOf(call.key, entry)
  <2>1. PICK i \in DOMAIN All(view) : y = All(view)[i]
    BY DEF Items
  <2> QED
    BY <1>1, <2>1, AllIsList
<1>3. y.number = entry.number /\ y.part = entry.part /\ entry.number \in Nat /\ entry.part \in Nat
  BY <1>1, <1>2, EntryFields DEF ItemOf
<1>4. event.number = number /\ event.part = made.part
  BY DEF EventOf
<1>5. ~(entry.number = number /\ entry.part = made.part)
  BY <1>2 DEF IsRepeated, IsFound, Adds
<1> HIDE DEF event, entry
<1>6. isNewerThan(event, y) /\ isNewerThan(event, entry)
  <2>1. y.number < number \/ (y.number = number /\ y.part <= made.part)
    OBVIOUS
  <2> QED
    BY <1>1, <1>3, <1>4, <1>5, <2>1 DEF isNewerThan
<1>7. call.kind # "Insert"
  <2> SUFFICES ASSUME call.kind = "Insert"
               PROVE  FALSE
    OBVIOUS
  <2>1. Called(call, event) = Insert(view, event, call.key, call.value)
    BY DEF Called
  <2>2. Insert(view, event, call.key, call.value) = Outcome(view, "error")
    BY <1>2, <1>6 DEF Insert, IsFound, entry
  <2>3. Called(call, event).outcome = "error"
    BY <2>1, <2>2 DEF Outcome
  <2> QED
    BY <2>3 DEF event
<1>8. call.kind = "Upsert"
  BY <1>7 DEF Adds
<1> QED
  BY <1>6, <1>8 DEF Moves, Hits, event

LEMMA CallIsRetriable ==
    ASSUME ~AddsAgain, ViewInv, RetryInv, NEW call \in Calls, Call(call), pc' = "applying"
    PROVE  Retriable(calls', number', All(view'), next', once')
<1>1. /\ pc = "applying" /\ (NeedsIndex(call) => view.hasIndex) /\ next = Len(calls) + 1
      /\ calls \in Seq(Made) /\ number' = number /\ number \in Nat
      /\ Retriable(calls, number, All(view), next, once)
  BY DEF Call, ViewInv, RetryInv, Made
<1>2. PICK part \in IF calls = <<>> THEN {0} ELSE {calls[Len(calls)].part,
                                                   calls[Len(calls)].part + 1} :
          /\ ~IsRepeated(call, part) /\ Take(call, part)
          /\ calls' = Append(calls, [call |-> call, part |-> part])
          /\ once' = Meant(once, call, [number |-> number, part |-> part])
  BY DEF Call
<1>3. Len(calls) \in Nat /\ DOMAIN calls = 1 .. Len(calls)
      /\ \A j \in DOMAIN calls : calls[j] \in Made
  <2> HIDE DEF Made
  <2> QED
    BY <1>1
<1>4. \A j \in DOMAIN calls : calls[j].part \in Nat
  BY <1>3 DEF Made
<1>5. part \in Nat /\ \A j \in DOMAIN calls : calls[j].part <= part
  <2>1. CASE calls = <<>>
    <3>1. DOMAIN calls = {}
      BY <2>1
    <3> QED
      BY <1>2, <2>1, <3>1
  <2>2. CASE calls # <<>>
    <3>1. Len(calls) \in DOMAIN calls
      BY <1>1, <1>3, <2>2
    <3>2. \A j \in DOMAIN calls : calls[j].part <= calls[Len(calls)].part
      BY <1>1, <1>3, <3>1 DEF Retriable
    <3>3. calls[Len(calls)].part \in Nat
      BY <1>4, <3>1
    <3>4. part = calls[Len(calls)].part \/ part = calls[Len(calls)].part + 1
      BY <1>2, <2>2
    <3> QED
      BY <1>4, <3>2, <3>3, <3>4
  <2> QED
    BY <2>1, <2>2
<1>6. PICK made \in Made : made = [call |-> call, part |-> part]
  BY <1>5 DEF Made
<1>7. made.call = call /\ made.part = part
      /\ EventOf(number, made) = [number |-> number, part |-> part]
  BY <1>6 DEF EventOf
<1> DEFINE A == All(view)
           event == EventOf(number, made)
           R == Plain(A, made.call, event)
<1>8. /\ A \in Lists /\ R \in Lists /\ All(view') = R
      /\ Called(made.call, event).outcome # "error"
  BY <1>1, <1>2, <1>7, TakeIsPlain
<1> HIDE DEF A, R
<1>9. A = once
  BY <1>1, <1>3, <1>8, ThroughIsOnce DEF A
<1>10. once' = R
  <2>1. once' = Meant(A, made.call, event)
    BY <1>2, <1>7, <1>9
  <2>2. Meant(A, made.call, event) = Plain(A, made.call, event)
    BY <1>7, <1>8, MeantIs
  <2> QED
    BY <2>1, <2>2 DEF R
<1>11. ASSUME NEW x \in Items(A)
       PROVE  x.number < number \/ (x.number = number /\ x.part <= made.part)
  <2>1. \/ x.number < number
        \/ x.number = number /\ \E j \in DOMAIN calls : x.part <= calls[j].part
    BY <1>1, <1>9 DEF Retriable
  <2>2. x.part \in Nat
    <3>1. PICK i \in DOMAIN A : x = A[i]
      BY DEF Items
    <3>2. x \in Item
      BY <1>8, <3>1, ListFields
    <3> QED
      BY <3>2, ItemFields
  <2>3. ASSUME NEW j \in DOMAIN calls, x.part <= calls[j].part
        PROVE  x.part <= made.part
    BY <1>4, <1>5, <1>7, <2>2, <2>3
  <2> QED
    BY <2>1, <2>3
<1>12. ASSUME NEW y \in Items(A), Adds(made.call), y.key = made.call.key
       PROVE  Moves(y, made.call, event)
  BY <1>2, <1>7, <1>8, <1>11, <1>12, NotRepeated DEF A
<1>13. calls' = Append(calls, made) /\ Len(calls') = Len(calls) + 1
  <2>1. calls' = Append(calls, made)
    BY <1>2, <1>6
  <2> HIDE DEF Made
  <2> QED
    BY <1>1, <2>1
<1>14. next' = Len(calls') + 1
  <2>1. next' = next + 1
    BY <1>2 DEF Take
  <2> QED
    BY <1>1, <1>13, <2>1
<1>15. \A j \in DOMAIN calls : calls[j].part <= made.part
  BY <1>5, <1>7
<1>16. Retriable(calls', number, R, Len(calls') + 1, R)
  <2>1. Retriable(calls, number, A, Len(calls) + 1, once)
    BY <1>1 DEF A
  <2>2. PICK cs2 : cs2 = calls'
    OBVIOUS
  <2>3. R = Plain(A, made.call, EventOf(number, made))
    BY DEF R
  <2> HIDE DEF event
  <2>4. Retriable(cs2, number, R, Len(cs2) + 1, R)
    BY <1>1, <1>8, <1>12, <1>13, <1>15, <2>1, <2>2, <2>3, MadeFirst DEF event
  <2> QED
    BY <2>2, <2>4
<1> QED
  BY <1>1, <1>8, <1>10, <1>14, <1>16

LEMMA CallAgainIsRetriable ==
    ASSUME ViewInv, RetryInv, CallAgain, pc' = "applying"
    PROVE  Retriable(calls', number', All(view'), next', once')
<1>1. /\ pc = "applying" /\ next <= Len(calls) /\ next \in Nat \ {0}
      /\ Take(calls[next].call, calls[next].part)
      /\ calls \in Seq(Made) /\ UNCHANGED <<number, calls, once>>
      /\ \A i \in DOMAIN calls : NeedsIndex(calls[i].call) => view.hasIndex
      /\ Retriable(calls, number, All(view), next, once)
  BY DEF CallAgain, ViewInv, RetryInv, Made
<1>2. /\ next \in DOMAIN calls /\ calls[next] \in Made
      /\ Len(calls) \in Nat /\ DOMAIN calls = 1 .. Len(calls)
  <2> HIDE DEF Made
  <2> QED
    BY <1>1
<1> DEFINE R == Plain(All(view), calls[next].call, EventOf(number, calls[next]))
<1>3. All(view) \in Lists /\ All(view') = R
  BY <1>1, <1>2, TakeIsPlain
<1> HIDE DEF R
<1>4. Retriable(calls, number, R, next + 1, once)
  BY <1>1, <1>2, <1>3, MadeAgain DEF R
<1>5. next' = next + 1
  BY <1>1 DEF Take
<1> QED
  BY <1>1, <1>3, <1>4, <1>5

LEMMA StepIsRetriable ==
    ASSUME ~AddsAgain, ViewInv, ViewInv', RetryInv, [Next]_vars
    PROVE  RetryInv'
<1>1. view \in GoodViews /\ All(view) \in Lists /\ next \in Nat \ {0} /\ Len(calls) \in Nat
      /\ number \in Nat
  <2>1. view \in GoodViews /\ next \in Nat \ {0} /\ calls \in Seq(Made) /\ number \in Nat
    BY DEF ViewInv, Made
  <2>2. Len(calls) \in Nat
    <3> HIDE DEF Made
    <3> QED
      BY <2>1
  <2>3. All(view) \in Lists
    BY <2>1, AllIsList DEF GoodViews
  <2> QED
    BY <2>1, <2>2, <2>3
<1>2. CASE AddIndex
  <2>1. /\ pc = "idle" /\ pc' = "idle" /\ number' = number /\ once' = once
        /\ All(view') = All(view)
    BY <1>1, <1>2, IndexKeepsAll DEF AddIndex
  <2> QED
    BY <2>1 DEF RetryInv
<1>3. CASE BeginEvent
  <2>1. /\ pc = "idle" /\ pc' = "applying" /\ number' = number + 1 /\ calls' = <<>>
        /\ next' = 1 /\ view' = view /\ once' = once
    BY <1>3 DEF BeginEvent
  <2> QED
    BY <2>1 DEF RetryInv
<1>4. CASE CallAgain
  <2>1. pc' # "idle"
    BY <1>4 DEF CallAgain, Take
  <2> QED
    BY <1>4, <2>1, CallAgainIsRetriable DEF RetryInv
<1>5. CASE HandlerFails
  <2>1. /\ pc = "applying" /\ pc' = "applying" /\ next' = 1
        /\ UNCHANGED <<view, number, calls, once>>
    BY <1>5 DEF HandlerFails
  <2>2. Retriable(calls, number, All(view), 1, once)
    BY <1>1, <2>1, AllOverAgain DEF RetryInv
  <2> QED
    BY <2>1, <2>2 DEF RetryInv
<1>6. CASE EndEvent
  <2>1. /\ pc = "applying" /\ pc' = "idle" /\ next = Len(calls) + 1
        /\ UNCHANGED <<view, number, once>>
    BY <1>6 DEF EndEvent
  <2>2. Retriable(calls, number, All(view), next, once)
    BY <2>1 DEF RetryInv
  <2>3. All(view) = once
    BY <1>1, <2>1, <2>2, ThroughIsOnce
  <2>4. ASSUME NEW x \in Items(once)
        PROVE  x.number < number + 1
    <3>1. x.number < number \/ x.number = number
      BY <2>2 DEF Retriable
    <3>2. x.number \in Nat
      <4>1. PICK i \in DOMAIN once : x = once[i]
        BY DEF Items
      <4>2. x \in Item
        BY <1>1, <2>3, <4>1, ListFields
      <4> QED
        BY <4>2, ItemFields
    <3> QED
      BY <1>1, <3>1, <3>2
  <2>5. Retriable(<<>>, number + 1, All(view), 1, once)
    BY <1>1, <2>3, <2>4, NothingMade
  <2> QED
    BY <2>1, <2>5 DEF RetryInv
<1>7. ASSUME NEW call \in Calls, Call(call)
      PROVE  RetryInv'
  <2>1. pc' # "idle"
    BY <1>7 DEF Call, Take
  <2> QED
    BY <1>7, <2>1, CallIsRetriable DEF RetryInv
<1>8. CASE UNCHANGED vars
  BY <1>8 DEF vars, RetryInv
<1> QED
  BY <1>2, <1>3, <1>4, <1>5, <1>6, <1>7, <1>8 DEF Next

LEMMA InitIsEmpty ==
    ASSUME Init
    PROVE  All(view) = <<>>
<1>1. view \in SoundViews
  BY InitIsGood DEF ViewInv, GoodViews
<1>2. DOMAIN view.entries = {}
  <2>1. PICK e : e = [k \in {} |-> k]
    OBVIOUS
  <2>2. DOMAIN e = {}
    BY <2>1
  <2>3. view.entries = e
    BY <2>1 DEF Init, newInMemoryView
  <2> QED
    BY <2>2, <2>3
<1>3. Cardinality({}) = 0
  BY FS_EmptySet
<1>4. Len(CurrentKeys(view)) = 0 /\ DOMAIN CurrentKeys(view) = 1 .. Len(CurrentKeys(view))
  BY <1>1, <1>2, <1>3, CurrentKeysAre
<1>5. DOMAIN CurrentKeys(view) = {}
  BY <1>4
<1>6. All(view) = [i \in {} |-> ItemOf(CurrentKeys(view)[i], view.entries[CurrentKeys(view)[i]])]
  BY <1>5 DEF All
<1> QED
  BY <1>6

LEMMA InitIsRetriable ==
    ASSUME Init
    PROVE  RetryInv
<1>1. All(view) = <<>> /\ once = <<>> /\ pc = "idle" /\ number = 0
  BY InitIsEmpty DEF Init
<1>2. All(view) \in Lists
  BY InitIsGood, AllIsList DEF ViewInv, GoodViews
<1>3. PICK A \in Lists : A = <<>>
  BY <1>1, <1>2
<1>4. DOMAIN A = {}
  BY <1>3
<1>5. Items(A) = {}
  BY <1>4 DEF Items
<1>6. Retriable(<<>>, 1, A, 1, A)
  BY <1>5, NothingMade
<1>7. number + 1 = 1
  BY <1>1
<1> QED
  BY <1>1, <1>3, <1>6, <1>7 DEF RetryInv

\* Handlers may fail for now and be called again for the same event as often as
\* they like, and wherever they were: unless they insert or upsert what they
\* have changed for the same part before, the view ends up as if each of their
\* calls had been made just once.
THEOREM RetriesChangeNothing == ~AddsAgain => (Spec => []RetryChangesNothing)
<1> SUFFICES ASSUME ~AddsAgain
             PROVE  Spec => []RetryChangesNothing
  OBVIOUS
<1>1. ViewInv /\ ViewInv' /\ RetryInv /\ [Next]_vars => RetryInv'
  BY StepIsRetriable
<1>2. ViewInv /\ RetryInv => RetryChangesNothing
  <2> SUFFICES ASSUME ViewInv, RetryInv, pc = "idle"
               PROVE  All(view) = once
    BY DEF RetryChangesNothing
  <2>1. All(view) \in Lists
    BY AllIsList DEF ViewInv, GoodViews
  <2>2. PICK cs : cs = <<>> /\ Len(cs) = 0
    OBVIOUS
  <2>3. Retriable(cs, number + 1, All(view), Len(cs) + 1, once)
    BY <2>2 DEF RetryInv
  <2> QED
    BY <2>1, <2>2, <2>3, ThroughIsOnce
<1> QED
  BY <1>1, <1>2, InitIsRetriable, ViewRunInv, PTL DEF Spec
=============================================================================
